---- MODULE Spec2Model ----
(***************************************************************************)
(* A model of the QGIS ODM frontend plugin: the NodeODM HTTP client        *)
(* (odm_connection.py) and the dialog (odm_dialog.py): task selection and  *)
(* status polling, processing presets, and the GCP file parser/writer.     *)
(*                                                                         *)
(* The remote server and the network are the environment: every HTTP       *)
(* request gets its outcome (a response, or a transport exception) by a    *)
(* nondeterministic choice.  Texts the code builds and parses are          *)
(* sequences of one-character strings, so that split, strip and startswith *)
(* are computed on them.                                                   *)
(***************************************************************************)
EXTENDS Integers, Sequences, FiniteSets, TLC

VARIABLES
    \* ---- ODMConnection, and the record of its last call ----
    token,            \* self.token (<<>> when no token is configured)
    call,             \* the client method called last
    env,              \* the inputs and network outcomes that call was given
    ret,              \* what the call returned (NoneVal when it raised)
    handles,          \* image file handles the call left open
    \* ---- the last call or dialog handler ----
    raised,           \* TRUE iff an exception left it
    reqs,             \* the HTTP requests it issued, in order
    \* ---- ODMDialog: tasks and polling ----
    op,               \* the handler that ran last, and its argument
    current_project,  \* self.current_project (NoText or a task id)
    status_timer,     \* "unset" (no attribute), "active" or "stopped"
    orphan_timers,    \* active QTimers self.status_timer no longer names
    start_task_btn,   \* enabled flags of the three task buttons
    stop_task_btn,
    delete_task_btn,
    image_paths,      \* self.image_paths
    projects_list,    \* item texts of the Tasks list
    results_task_combo, \* [items: <<[text, data]>>, index] of the Results selector
    results_text,     \* lines shown in the Results text box
    progress_bar,     \* progress bar visible
    status_text,      \* lines the last handler appended to the status log
    restarted,        \* the last handler started the status timer while a
                      \* status timer was running
    imported,         \* the layers the last handler added to the QGIS
                      \* project, and the message box of import_to_qgis
    seen,             \* status code the last refresh_status read (-1: none)
    \* ---- ODMDialog: processing options ----
    opts,             \* the values of the 18 option widgets a preset sets
    preset_combo,     \* current text of the preset selector
    edits,            \* option edits made by hand so far
    project_file,     \* what save_project wrote last (NoneVal: no file)
    \* ---- ODMDialog: ground control points ----
    gcp_points,       \* self.gcp_points
    gcp_projection,   \* self.gcp_projection (NoText or the header text)
    gcp_list,         \* item texts of the GCP list
    gcp_current,      \* index of the list's current item, 0 when none
    gcp_buttons,      \* "Edit Selected" and "Remove Selected" enabled
    gcp_info,         \* the point the info labels show (NoneVal: '-')
    gcp_file,         \* lines of the file save_gcp_file wrote last
    written_points,   \* self.gcp_points as they were when it was written
    gcp_msgs          \* message boxes the last GCP handler showed

connVars == <<token, call, env, ret, handles>>
handlerVars == <<raised, reqs>>
taskVars == <<op, current_project, status_timer, orphan_timers, start_task_btn,
              stop_task_btn, delete_task_btn, image_paths, projects_list,
              results_task_combo, results_text, progress_bar, status_text, seen,
              imported, restarted>>

optVars == <<opts, preset_combo, edits, project_file>>
gcpVars == <<gcp_points, gcp_projection, gcp_list, gcp_current, gcp_buttons, gcp_info,
             gcp_file, written_points, gcp_msgs>>
uiVars == <<taskVars, optVars, gcpVars>>

vars == <<connVars, handlerVars, uiVars>>

\* Python's None where a record (a parsed JSON object) is expected
NoneVal == [none |-> TRUE]

\* Python's None where a string is expected: no text is this tuple, the
\* texts being sequences of one-character strings
NoText == <<"None">>

\* Python truthiness of an optional string
Truthy(x) == x # NoText /\ x # <<>>

(***************************************************************************)
(* Bounds and input alphabets                                              *)
(***************************************************************************)
MaxList == 2                     \* entries in one /task/list answer
MaxUpload == 2                   \* image paths given to one create_task
MaxImages == 1                   \* image paths the dialog holds
MaxEdits == 1                    \* option widgets edited by hand
MaxPoints == 2                   \* GCP points added by hand
MaxLines == 2                    \* data lines of a GCP file read from disk
UUIDs == {<<"u", "1">>, <<"u", "2">>}    \* task UUIDs the server may use
Tokens == {<<>>, <<"t", "k">>}   \* configured tokens (<<>> = none)
Codes == {10, 20, 30, 40, 50, 60}    \* status codes a server may send
ImagePaths == {<<"a">>, <<"b">>}     \* local image paths

(***************************************************************************)
(* Text                                                                    *)
(***************************************************************************)
Min(S) == CHOOSE x \in S : \A y \in S : x <= y
Max(S) == CHOOSE x \in S : \A y \in S : x >= y

RECURSIVE SeqsUpTo(_, _)
SeqsUpTo(S, n) ==
    IF n = 0 THEN {<<>>}
    ELSE LET shorter == SeqsUpTo(S, n - 1)
         IN  shorter \cup {Append(s, x) : s \in shorter, x \in S}

RECURSIVE Concat(_)
Concat(ss) == IF ss = <<>> THEN <<>> ELSE Head(ss) \o Concat(Tail(ss))

Whitespace == {" ", "\t", "\n", "\r"}

\* pat occurs in s at index i
OccursAt(s, pat, i) ==
    /\ i >= 1
    /\ i + Len(pat) - 1 <= Len(s)
    /\ SubSeq(s, i, i + Len(pat) - 1) = pat

\* the first index >= from at which pat occurs in s, 0 when there is none
Find(s, pat, from) ==
    LET hits == {i \in from..Len(s) : OccursAt(s, pat, i)}
    IN  IF hits = {} THEN 0 ELSE Min(hits)

\* Python: pat in s
Contains(s, pat) == Find(s, pat, 1) # 0

\* Python: s.startswith(pat)
StartsWith(s, pat) == OccursAt(s, pat, 1)

\* Python: len(s.split(pat)), for a non-empty pat
RECURSIVE SplitCount(_, _)
SplitCount(s, pat) ==
    LET i == Find(s, pat, 1)
    IN  IF i = 0 THEN 1
        ELSE 1 + SplitCount(SubSeq(s, i + Len(pat), Len(s)), pat)

\* Python: s.split(pat)[k], k counted from 0, for a non-empty pat
RECURSIVE SplitPart(_, _, _)
SplitPart(s, pat, k) ==
    LET i == Find(s, pat, 1)
    IN  IF i = 0 THEN s
        ELSE IF k = 0 THEN SubSeq(s, 1, i - 1)
        ELSE SplitPart(SubSeq(s, i + Len(pat), Len(s)), pat, k - 1)

\* Python: s.strip()
Strip(s) ==
    LET keep == {i \in 1..Len(s) : s[i] \notin Whitespace}
    IN  IF keep = {} THEN <<>> ELSE SubSeq(s, Min(keep), Max(keep))

Digit(d) == <<"0", "1", "2", "3", "4", "5", "6", "7", "8", "9">>[d + 1]

\* Python: str(n) of an integer
RECURSIVE NatStr(_)
NatStr(n) == IF n < 10 THEN <<Digit(n)>> ELSE Append(NatStr(n \div 10), Digit(n % 10))
IntStr(n) == IF n < 0 THEN <<"-">> \o NatStr(-n) ELSE NatStr(n)

(***************************************************************************)
(* JSON values and HTTP                                                    *)
(***************************************************************************)
\* a status field: a dict {'code': c}, or a plain integer c
StatusDict(c) == [kind |-> "dict", code |-> c]
StatusInt(c) == [kind |-> "int", code |-> c]

\* the body of a 200 answer of GET /task/{uuid}/info
TaskInfo(u, n, st) == [uuid |-> u, name |-> n, status |-> st, progress |-> 0]

\* one HTTP request as the client issues it: the token is a query parameter
\* when self.token is not empty
Params(tok) == IF tok # <<>> THEN {<<"token", tok>>} ELSE {}
Req(method, path, uuid, tok) ==
    [method |-> method, path |-> path, uuid |-> uuid, params |-> Params(tok)]

\* a network outcome: a transport exception, a response whose body is JSON,
\* or a response whose body response.json() cannot parse
Exc == [kind |-> "exc"]
Resp(status, body) == [kind |-> "resp", status |-> status, json |-> TRUE, body |-> body]
RespNoJson(status) == [kind |-> "resp", status |-> status, json |-> FALSE]

\* what a client method did: its return value, whether an exception left
\* it, the requests it issued and the file handles it left open
Result(value, exc, requests, open) ==
    [ret |-> value, raised |-> exc, reqs |-> requests, handles |-> open]

(***************************************************************************)
(* ODMConnection.get_tasks                                                 *)
(***************************************************************************)
\* a stub whose status is the plain code
StubRecordPlainStatus(uuid) ==
    [uuid |-> uuid, name |-> <<"T", "a", "s", "k">>, status |-> StatusInt(0),
     progress |-> 0]

\* the record substituted for a task whose detail request answered non-200
StubRecord(uuid) ==
    [uuid |-> uuid, name |-> <<"T", "a", "s", "k">>, status |-> StatusDict(0),
     progress |-> 0]

\* the for loop over the listed items; an exception of a detail request (or
\* of its .json()) leaves the loop for the except clause, which returns []
RECURSIVE get_tasks_loop(_, _, _, _, _)
get_tasks_loop(tok, items, infoResp, tasks_with_info, issued) ==
    IF items = <<>>
    THEN Result(tasks_with_info, FALSE, issued, 0)
    ELSE LET uuid == Head(items).uuid
             r == infoResp[uuid]
             rq == Append(issued, Req("GET", "/task/{uuid}/info", uuid, tok))
         IN  IF uuid = <<>>
             THEN get_tasks_loop(tok, Tail(items), infoResp, tasks_with_info, issued)
             ELSE IF r.kind = "exc"
             THEN Result(<<>>, FALSE, rq, 0)
             ELSE IF r.status = 200
             THEN IF ~r.json
                  THEN Result(<<>>, FALSE, rq, 0)
                  ELSE get_tasks_loop(tok, Tail(items), infoResp,
                                      Append(tasks_with_info, r.body), rq)
             ELSE get_tasks_loop(tok, Tail(items), infoResp,
                                 Append(tasks_with_info, StubRecord(uuid)), rq)

get_tasks(tok, listResp, infoResp) ==
    LET first == <<Req("GET", "/task/list", <<>>, tok)>>
    IN  IF listResp.kind = "exc" THEN Result(<<>>, FALSE, first, 0)
        ELSE IF listResp.status = 200
        THEN IF ~listResp.json
             THEN Result(<<>>, FALSE, first, 0)
             ELSE get_tasks_loop(tok, listResp.body, infoResp, <<>>, first)
        ELSE Result(<<>>, FALSE, first, 0)

(***************************************************************************)
(* ODMConnection.create_task                                               *)
(***************************************************************************)
\* the index of the first path open() fails on, 0 when every path opens
FirstUnopenable(paths, openable) ==
    LET bad == {i \in 1..Len(paths) : paths[i] \notin openable}
    IN  IF bad = {} THEN 0 ELSE Min(bad)

\* open() runs before the try block: its exception leaves create_task, with
\* the handles opened so far still open.  Inside the try block every failure
\* (transport, .json()) reaches the except clause, which closes the handles
\* and returns None.
create_task(tok, paths, openable, postResp) ==
    LET k == FirstUnopenable(paths, openable)
        post == <<Req("POST", "/task/new", <<>>, tok)>>
    IN  IF k # 0 THEN Result(NoneVal, TRUE, <<>>, k - 1)
        ELSE IF postResp.kind = "exc" THEN Result(NoneVal, FALSE, post, 0)
        ELSE IF postResp.status = 200
        THEN IF ~postResp.json
             THEN Result(NoneVal, FALSE, post, 0)
             ELSE Result(postResp.body, FALSE, post, 0)
        ELSE Result(NoneVal, FALSE, post, 0)

(***************************************************************************)
(* ODMConnection.test_connection                                           *)
(***************************************************************************)
ENDPOINTS == <<"/info", "/", "/task/list">>

\* a test_connection that gives up at the first probe that throws
RECURSIVE test_connection_stops_at_exception(_, _, _)
test_connection_stops_at_exception(endpoints, probeResps, issued) ==
    IF endpoints = <<>> THEN Result(FALSE, FALSE, issued, 0)
    ELSE LET resp == Head(probeResps)
             rq == Append(issued, Req("GET", Head(endpoints), <<>>, <<>>))
         IN  IF resp.kind = "exc" THEN Result(FALSE, FALSE, rq, 0)
             ELSE IF resp.status = 200 THEN Result(TRUE, FALSE, rq, 0)
             ELSE test_connection_stops_at_exception(Tail(endpoints),
                                                     Tail(probeResps), rq)

\* the for loop over the endpoints: requests.get has no params argument, so
\* no probe carries the token; the bare except of a probe goes on with the
\* next endpoint
RECURSIVE test_connection(_, _, _)
test_connection(endpoints, probeResps, issued) ==
    IF endpoints = <<>> THEN Result(FALSE, FALSE, issued, 0)
    ELSE LET resp == Head(probeResps)
             rq == Append(issued, Req("GET", Head(endpoints), <<>>, <<>>))
         IN  IF resp.kind = "resp" /\ resp.status = 200
             THEN Result(TRUE, FALSE, rq, 0)
             ELSE test_connection(Tail(endpoints), Tail(probeResps), rq)

(***************************************************************************)
(* ODMConnection.get_task_info, download_results, cancel_task, delete_task *)
(***************************************************************************)
\* one GET; a bare except turns every failure into None
get_task_info(tok, task_id, resp) ==
    LET rq == <<Req("GET", "/task/{uuid}/info", task_id, tok)>>
    IN  IF resp.kind = "exc" THEN Result(NoneVal, FALSE, rq, 0)
        ELSE IF resp.status = 200
        THEN IF ~resp.json THEN Result(NoneVal, FALSE, rq, 0)
             ELSE Result(resp.body, FALSE, rq, 0)
        ELSE Result(NoneVal, FALSE, rq, 0)

\* a download_results that opens the output file before its try block
download_results_open_outside_try(tok, task_id, resp, output) ==
    LET rq == <<Req("GET", "/task/{uuid}/download/all.zip", task_id, tok)>>
    IN  IF output = "open fails" THEN Result(NoneVal, TRUE, <<>>, 0)
        ELSE IF resp.kind = "exc" THEN Result(FALSE, FALSE, rq, 0)
        ELSE IF resp.status = 200
        THEN Result(output = "written", FALSE, rq, 0)
        ELSE Result(FALSE, FALSE, rq, 0)

\* one GET; on 200 the body is streamed into the output file.  output is
\* what happens then: "written", "open fails" (open(output_path, 'wb')
\* raises) or "stream breaks" (iter_content raises); the bare except turns
\* both into False, and the with statement closes the file
download_results(tok, task_id, resp, output) ==
    LET rq == <<Req("GET", "/task/{uuid}/download/all.zip", task_id, tok)>>
    IN  IF resp.kind = "exc" THEN Result(FALSE, FALSE, rq, 0)
        ELSE IF resp.status = 200
        THEN Result(output = "written", FALSE, rq, 0)
        ELSE Result(FALSE, FALSE, rq, 0)

\* response.json().get('success', False): a body that is no dict has no
\* get (the AttributeError reaches except Exception), a dict without the
\* key gives the default
get_success(body) ==
    IF "success" \in DOMAIN body THEN body.success ELSE FALSE

\* one POST with the uuid in the JSON body; returns the answer's 'success'
cancel_task(tok, task_id, resp) ==
    LET rq == <<Req("POST", "/task/cancel", task_id, tok)>>
    IN  IF resp.kind = "exc" THEN Result(FALSE, FALSE, rq, 0)
        ELSE IF resp.status = 200
        THEN IF ~resp.json THEN Result(FALSE, FALSE, rq, 0)
             ELSE Result(get_success(resp.body), FALSE, rq, 0)
        ELSE Result(FALSE, FALSE, rq, 0)

delete_task_request(tok, task_id, resp) ==
    LET rq == <<Req("POST", "/task/remove", task_id, tok)>>
    IN  IF resp.kind = "exc" THEN Result(FALSE, FALSE, rq, 0)
        ELSE IF resp.status = 200
        THEN IF ~resp.json THEN Result(FALSE, FALSE, rq, 0)
             ELSE Result(get_success(resp.body), FALSE, rq, 0)
        ELSE Result(FALSE, FALSE, rq, 0)

(***************************************************************************)
(* The environment's answers, drawn from small sets                        *)
(***************************************************************************)
ListItems == {[uuid |-> u] : u \in UUIDs \cup {<<>>}}

ListResps ==
    {Exc, RespNoJson(500), RespNoJson(200)}
        \cup {Resp(200, b) : b \in SeqsUpTo(ListItems, MaxList)}

\* the name the server holds for each task
NameOf(u) == IF u = <<"u", "1">> THEN <<"A">> ELSE <<"I", "D", ":", " ", "x", ")">>

InfoRespsOf(u) ==
    {Exc, RespNoJson(404), RespNoJson(200),
     Resp(200, TaskInfo(u, NameOf(u), StatusDict(20)))}

AllInfoResps == UNION {InfoRespsOf(u) : u \in UUIDs}

InfoResps == {f \in [UUIDs \cup {<<>>} -> AllInfoResps] :
                 /\ f[<<>>] = Exc
                 /\ \A u \in UUIDs : f[u] \in InfoRespsOf(u)}

PostResps ==
    {Exc, RespNoJson(500), RespNoJson(200)}
        \cup {Resp(200, [uuid |-> u]) : u \in UUIDs}

\* the answers of the three probes of test_connection
ProbeResps == {Exc, RespNoJson(200), RespNoJson(404)}

\* the answers to a request about one task: no answer, an error status, a
\* 200 without JSON, and the 200s with the JSON bodies given
AnswersWith(bodies) ==
    {Exc, RespNoJson(500), RespNoJson(200)} \cup {Resp(200, b) : b \in bodies}

\* JSON bodies of POST /task/cancel and /task/remove: with 'success', a
\* dict without it, and a list
SuccessBodies ==
    {[success |-> TRUE], [success |-> FALSE], [error |-> <<"e">>], <<>>}

(***************************************************************************)
(* The client's operations as actions                                      *)
(***************************************************************************)
Return(name, inputs, r) ==
    /\ call' = name
    /\ env' = inputs
    /\ ret' = r.ret
    /\ raised' = r.raised
    /\ reqs' = r.reqs
    /\ handles' = r.handles

SetCredentials ==
    \E tok \in Tokens :
        /\ token' = tok
        /\ UNCHANGED <<call, env, ret, raised, reqs, handles, uiVars>>

GetTasks ==
    \E listResp \in ListResps, infoResp \in InfoResps :
        /\ Return("get_tasks", [list |-> listResp, info |-> infoResp],
                  get_tasks(token, listResp, infoResp))
        /\ UNCHANGED <<token, uiVars>>

CreateTask ==
    \E paths \in SeqsUpTo(ImagePaths, MaxUpload),
       openable \in SUBSET ImagePaths, postResp \in PostResps :
        /\ Return("create_task",
                  [paths |-> paths, openable |-> openable, post |-> postResp],
                  create_task(token, paths, openable, postResp))
        /\ UNCHANGED <<token, uiVars>>

TestConnection ==
    \E probeResps \in [1..3 -> ProbeResps] :
        /\ Return("test_connection", [probes |-> probeResps],
                  test_connection(ENDPOINTS, probeResps, <<>>))
        /\ UNCHANGED <<token, uiVars>>

GetTaskInfo ==
    \E u \in UUIDs :
        \E resp \in AnswersWith({TaskInfo(u, NameOf(u), StatusDict(20))}) :
            /\ Return("get_task_info", [resp |-> resp],
                      get_task_info(token, u, resp))
            /\ UNCHANGED <<token, uiVars>>

DownloadResults ==
    \E u \in UUIDs, resp \in {Exc, RespNoJson(500), RespNoJson(200)},
       output \in {"written", "open fails", "stream breaks"} :
        /\ Return("download_results", [resp |-> resp, output |-> output],
                  download_results(token, u, resp, output))
        /\ UNCHANGED <<token, uiVars>>

CancelTask ==
    \E u \in UUIDs, resp \in AnswersWith(SuccessBodies) :
        /\ Return("cancel_task", [resp |-> resp], cancel_task(token, u, resp))
        /\ UNCHANGED <<token, uiVars>>

DeleteTaskRequest ==
    \E u \in UUIDs, resp \in AnswersWith(SuccessBodies) :
        /\ Return("delete_task", [resp |-> resp],
                  delete_task_request(token, u, resp))
        /\ UNCHANGED <<token, uiVars>>

ConnInit ==
    /\ token \in Tokens
    /\ call = "none"
    /\ env = NoneVal
    /\ ret = NoneVal
    /\ handles = 0
    /\ raised = FALSE
    /\ reqs = <<>>

(***************************************************************************)
(* ODMDialog: the state a handler works on                                 *)
(***************************************************************************)
\* no layer added, no message box of import_to_qgis shown
NoImport == [layers |-> <<>>, title |-> "none", count |-> 0]

\* The dialog's task state as one record, so that a handler is a function
\* from the state before to the state after, and a handler that calls
\* another is a composition.  status_text, reqs, raised and seen start
\* empty at every handler: they hold what that handler did.
Dialog ==
    [current_project |-> current_project, status_timer |-> status_timer,
     orphan_timers |-> orphan_timers, start_task_btn |-> start_task_btn,
     stop_task_btn |-> stop_task_btn, delete_task_btn |-> delete_task_btn,
     image_paths |-> image_paths, projects_list |-> projects_list,
     results_task_combo |-> results_task_combo, results_text |-> results_text,
     progress_bar |-> progress_bar, status_text |-> <<>>, seen |-> -1,
     reqs |-> <<>>, raised |-> FALSE, imported |-> NoImport,
     restarted |-> FALSE]

\* the handler named name, run with argument arg, left the dialog as d
Becomes(name, arg, d) ==
    /\ op' = [name |-> name, arg |-> arg]
    /\ current_project' = d.current_project
    /\ status_timer' = d.status_timer
    /\ orphan_timers' = d.orphan_timers
    /\ start_task_btn' = d.start_task_btn
    /\ stop_task_btn' = d.stop_task_btn
    /\ delete_task_btn' = d.delete_task_btn
    /\ image_paths' = d.image_paths
    /\ projects_list' = d.projects_list
    /\ results_task_combo' = d.results_task_combo
    /\ results_text' = d.results_text
    /\ progress_bar' = d.progress_bar
    /\ status_text' = d.status_text
    /\ seen' = d.seen
    /\ reqs' = d.reqs
    /\ raised' = d.raised
    /\ imported' = d.imported
    /\ restarted' = d.restarted
    /\ UNCHANGED <<connVars, optVars, gcpVars>>

\* QTimer.stop() on self.status_timer, guarded by hasattr(self, 'status_timer')
stop_status_timer(d) ==
    IF d.status_timer = "unset" THEN d ELSE [d EXCEPT !.status_timer = "stopped"]

Log(d, line) == [d EXCEPT !.status_text = Append(@, line)]

(***************************************************************************)
(* Status labels                                                           *)
(***************************************************************************)
QUEUED == <<"Q", "U", "E", "U", "E", "D">>
RUNNING == <<"R", "U", "N", "N", "I", "N", "G">>
FAILED == <<"F", "A", "I", "L", "E", "D">>
COMPLETED == <<"C", "O", "M", "P", "L", "E", "T", "E", "D">>
CANCELED == <<"C", "A", "N", "C", "E", "L", "E", "D">>
\* f'UNKNOWN({status_code})'
UNKNOWN(code) == <<"U", "N", "K", "N", "O", "W", "N", "(">> \o IntStr(code) \o <<")">>

\* status_map.get(status_code, f'UNKNOWN({status_code})') in load_projects
load_projects_status_map(status_code) ==
    CASE status_code = 10 -> QUEUED
      [] status_code = 20 -> RUNNING
      [] status_code = 30 -> FAILED
      [] status_code = 40 -> COMPLETED
      [] status_code = 50 -> CANCELED
      [] OTHER -> UNKNOWN(status_code)

\* a status_map without the entry for 50
status_map_without_canceled(status_code) ==
    CASE status_code = 10 -> QUEUED
      [] status_code = 20 -> RUNNING
      [] status_code = 30 -> FAILED
      [] status_code = 40 -> COMPLETED
      [] OTHER -> UNKNOWN(status_code)

\* status_map.get(status_code, f'UNKNOWN({status_code})') in refresh_status
refresh_status_status_map(status_code) ==
    CASE status_code = 10 -> QUEUED
      [] status_code = 20 -> RUNNING
      [] status_code = 30 -> FAILED
      [] status_code = 40 -> COMPLETED
      [] status_code = 50 -> CANCELED
      [] OTHER -> UNKNOWN(status_code)

\* the status field is a dict with a code, or the code itself
status_code_of(status_field) == status_field.code

(***************************************************************************)
(* ODMDialog.update_task_buttons, refresh_status, start_status_monitoring  *)
(***************************************************************************)
\* task_info.get('status', {}).get('code', 0) is an AttributeError when the
\* status field is a plain integer; the exception leaves the handler
update_task_buttons(d, resp) ==
    IF ~Truthy(d.current_project)
    THEN [d EXCEPT !.start_task_btn = Len(d.image_paths) > 0,
                   !.stop_task_btn = FALSE]
    ELSE LET r == get_task_info(token, d.current_project, resp)
             d1 == [d EXCEPT !.reqs = @ \o r.reqs]
         IN  IF r.ret = NoneVal THEN d1
             ELSE IF r.ret.status.kind = "int" THEN [d1 EXCEPT !.raised = TRUE]
             ELSE IF r.ret.status.code = 20
             THEN [d1 EXCEPT !.start_task_btn = FALSE, !.stop_task_btn = TRUE]
             ELSE [d1 EXCEPT !.start_task_btn = Len(d.image_paths) > 0,
                             !.stop_task_btn = FALSE]

\* the status line written to results_text
StatusLine(task_info, label) ==
    [name |-> task_info.name, status |-> label, progress |-> task_info.progress]

refresh_status_failure_stops_timer(d, resp) ==
    IF ~Truthy(d.current_project) THEN d
    ELSE LET r == get_task_info(token, d.current_project, resp)
             d1 == [d EXCEPT !.reqs = @ \o r.reqs, !.results_text = <<>>]
         IN  IF r.ret = NoneVal THEN stop_status_timer(d1)
             ELSE LET status_code == status_code_of(r.ret.status)
                      d2 == [d1 EXCEPT !.seen = status_code]
                  IN  IF status_code \in {30, 40} THEN stop_status_timer(d2)
                      ELSE d2

\* the timer is stopped on COMPLETED (40) and on FAILED (30) only
refresh_status(d, resp) ==
    IF ~Truthy(d.current_project) THEN d
    ELSE LET r == get_task_info(token, d.current_project, resp)
             d1 == [d EXCEPT !.reqs = @ \o r.reqs, !.results_text = <<>>]
         IN  IF r.ret = NoneVal THEN d1
             ELSE LET status_code == status_code_of(r.ret.status)
                      d2 == [d1 EXCEPT
                               !.seen = status_code,
                               !.progress_bar =
                                   IF status_code = 20 THEN TRUE
                                   ELSE IF status_code \in {40, 30, 50} THEN FALSE
                                   ELSE @,
                               !.results_text =
                                   <<StatusLine(r.ret,
                                                refresh_status_status_map(status_code))>>]
                  IN  IF status_code = 40
                      THEN stop_status_timer(Log(d2, "Processing completed successfully!"))
                      ELSE IF status_code = 30
                      THEN stop_status_timer(Log(d2, "Processing failed!"))
                      ELSE d2

\* a start_status_monitoring that does not stop the timer there is
start_status_monitoring_without_stop(d, resp) ==
    LET d2 == [d EXCEPT !.orphan_timers =
                            IF d.status_timer = "active" THEN @ + 1 ELSE @,
                        !.restarted = d.status_timer = "active",
                        !.status_timer = "active"]
    IN  refresh_status(d2, resp)

\* stop the timer there is, make a new one, start it, and poll once at once
start_status_monitoring(d, resp) ==
    LET d1 == stop_status_timer(d)
        d2 == [d1 EXCEPT !.orphan_timers =
                             IF d1.status_timer = "active" THEN @ + 1 ELSE @,
                         !.restarted = d.status_timer = "active",
                         !.status_timer = "active"]
    IN  refresh_status(d2, resp)

(***************************************************************************)
(* ODMDialog.select_results_task, load_projects                            *)
(***************************************************************************)
\* QComboBox.currentData(): None when there is no current item
currentData(combo) ==
    IF combo.index < 0 THEN NoText ELSE combo.items[combo.index + 1].data

\* the slot of results_task_combo.currentIndexChanged
select_results_task(d, respButtons, respStatus) ==
    LET selected_uuid == currentData(d.results_task_combo)
    IN  IF Truthy(selected_uuid)
        THEN LET d1 == update_task_buttons(
                           [d EXCEPT !.current_project = selected_uuid,
                                     !.results_text = <<>>], respButtons)
             IN  IF d1.raised \/ d1.status_timer = "unset" THEN d1
                 ELSE start_status_monitoring(d1, respStatus)
        ELSE stop_status_timer([d EXCEPT !.current_project = NoText,
                                         !.results_text = <<>>])

NoTaskSelected == [text |-> <<"N", "o", " ", "t", "a", "s", "k">>, data |-> <<>>]

\* QComboBox.clear(): a combo that had a current item has none afterwards and
\* emits currentIndexChanged(-1), which runs the slot
combo_clear(d) ==
    LET d1 == [d EXCEPT !.results_task_combo = [items |-> <<>>, index |-> -1]]
    IN  IF d.results_task_combo.index >= 0
        THEN select_results_task(d1, Exc, Exc)
        ELSE d1

\* QComboBox.addItem(): the first item of an empty combo becomes the current
\* one and currentIndexChanged(0) runs the slot; later items change nothing
combo_addItem(d, item, respButtons, respStatus) ==
    LET was_empty == d.results_task_combo.items = <<>>
        d1 == [d EXCEPT !.results_task_combo =
                            [items |-> Append(@.items, item),
                             index |-> IF was_empty THEN 0 ELSE @.index]]
    IN  IF was_empty THEN select_results_task(d1, respButtons, respStatus) ELSE d1

\* f"{task_name} (ID: {task_uuid}) - {status_text}"
ItemText(task_name, task_uuid, label) ==
    Concat(<<task_name, <<" ", "(", "I", "D", ":", " ">>, task_uuid,
             <<")", " ", "-", " ">>, label>>)

\* f"{task_name} - {status_text}"
ComboText(task_name, label) == Concat(<<task_name, <<" ", "-", " ">>, label>>)

\* the for loop of load_projects: one list item and one combo item per task
\* with a UUID
RECURSIVE load_projects_loop(_, _)
load_projects_loop(d, tasks) ==
    IF tasks = <<>> THEN d
    ELSE LET task == Head(tasks)
             label == load_projects_status_map(status_code_of(task.status))
             d1 == [d EXCEPT !.projects_list =
                                 Append(@, ItemText(task.name, task.uuid, label))]
             d2 == combo_addItem(d1, [text |-> ComboText(task.name, label),
                                      data |-> task.uuid], Exc, Exc)
         IN  IF Truthy(task.uuid)
             THEN load_projects_loop(d2, Tail(tasks))
             ELSE load_projects_loop(d, Tail(tasks))

load_projects(d, listResp, infoResp) ==
    LET r == get_tasks(token, listResp, infoResp)
        d1 == [d EXCEPT !.reqs = @ \o r.reqs, !.projects_list = <<>>]
        d2 == combo_clear(d1)
        d3 == combo_addItem(d2, NoTaskSelected, Exc, Exc)
    IN  load_projects_loop(d3, r.ret)

(***************************************************************************)
(* ODMDialog: processing options and presets                               *)
(***************************************************************************)
PRESET_NAMES == {"Default", "High Resolution", "Fast Orthophoto", "Field",
                 "DSM+DTM", "3D Model"}

\* the items of preset_combo
PresetItems == {"Custom"} \cup PRESET_NAMES

\* the dict presets of apply_preset
presets ==
    [p \in PRESET_NAMES |->
        [feature_extraction |->
             CASE p = "Default" -> "medium" [] p = "Fast Orthophoto" -> "low"
               [] p = "DSM+DTM" -> "medium" [] OTHER -> "high",
         camera_lens |-> IF p = "Field" THEN "perspective" ELSE "auto",
         quality |->
             CASE p = "High Resolution" -> 25 [] p = "Fast Orthophoto" -> 75
               [] p \in {"Field", "3D Model"} -> 30 [] OTHER -> 50,
         dsm |-> p # "Fast Orthophoto",
         dtm |-> p \in {"High Resolution", "DSM+DTM"},
         orthophoto |-> TRUE,
         reconstruction |-> IF p = "Fast Orthophoto" THEN "medium" ELSE "high",
         fov |-> 60,
         pointcloud_density |->
             CASE p \in {"High Resolution", "3D Model"} -> "high"
               [] p = "Fast Orthophoto" -> "low" [] OTHER -> "medium",
         outlier_removal |-> p = "DSM+DTM",
         deviation |-> IF p = "DSM+DTM" THEN 3 ELSE 5,
         resolution |->
             CASE p = "High Resolution" -> 12 [] p = "Fast Orthophoto" -> 48
               [] p \in {"Field", "3D Model"} -> 16 [] OTHER -> 24,
         tile_size |-> IF p = "Fast Orthophoto" THEN "4096" ELSE "2048",
         texture_mesh |-> p \notin {"Fast Orthophoto", "Field"},
         generate_video |-> FALSE,
         generate_report |-> p # "Fast Orthophoto",
         threads |-> 0,
         memory_limit |-> IF p = "3D Model" THEN 12 ELSE 8]]

\* the items of the option combo boxes, as init_ui adds them
ComboItems ==
    [feature_extraction |-> <<"auto", "high", "medium", "low">>,
     camera_lens |-> <<"auto", "perspective", "fisheye", "spherical">>,
     reconstruction |-> <<"high", "medium", "low">>,
     pointcloud_density |-> <<"high", "medium", "low">>,
     tile_size |-> <<"2048", "4096", "8192">>]

\* setRange(lo, hi) of the option spin boxes
SpinRange ==
    [quality |-> [lo |-> 1, hi |-> 100], fov |-> [lo |-> 1, hi |-> 180],
     deviation |-> [lo |-> 1, hi |-> 50], resolution |-> [lo |-> 1, hi |-> 100],
     threads |-> [lo |-> 1, hi |-> 32], memory_limit |-> [lo |-> 1, hi |-> 64]]

ComboFields == DOMAIN ComboItems
SpinFields == DOMAIN SpinRange
CheckFields == {"dsm", "dtm", "orthophoto", "outlier_removal", "texture_mesh",
                "generate_video", "generate_report"}

\* QSpinBox.setValue: the value is brought into the range
setValue(o, field, value) ==
    LET r == SpinRange[field]
    IN  [o EXCEPT ![field] = IF value < r.lo THEN r.lo
                             ELSE IF value > r.hi THEN r.hi ELSE value]

\* QComboBox.setCurrentText of a combo that is not editable: a text that is
\* no item changes nothing
setCurrentText(o, field, text) ==
    IF \E i \in 1..Len(ComboItems[field]) : ComboItems[field][i] = text
    THEN [o EXCEPT ![field] = text] ELSE o

setChecked(o, field, value) == [o EXCEPT ![field] = value]

\* the widgets as init_ui leaves them; threads_spin.setValue(0) with the
\* range 1..32
WidgetDefaults ==
    LET first == [feature_extraction |-> "auto", camera_lens |-> "auto",
                  quality |-> 50, dsm |-> FALSE, dtm |-> FALSE, orthophoto |-> TRUE,
                  reconstruction |-> "high", fov |-> 60,
                  pointcloud_density |-> "high", outlier_removal |-> FALSE,
                  deviation |-> 5, resolution |-> 24, tile_size |-> "2048",
                  texture_mesh |-> TRUE, generate_video |-> FALSE,
                  generate_report |-> TRUE, threads |-> 1, memory_limit |-> 8]
    IN  setValue(first, "threads", 0)

\* the setters of apply_preset, in the order of the code
RECURSIVE apply_config(_, _, _)
apply_config(o, config, fields) ==
    IF fields = <<>> THEN o
    ELSE LET f == Head(fields)
             o1 == IF f \in ComboFields THEN setCurrentText(o, f, config[f])
                   ELSE IF f \in SpinFields THEN setValue(o, f, config[f])
                   ELSE setChecked(o, f, config[f])
         IN  apply_config(o1, config, Tail(fields))

PRESET_FIELDS ==
    <<"feature_extraction", "camera_lens", "quality", "dsm", "dtm", "orthophoto",
      "reconstruction", "fov", "pointcloud_density", "outlier_removal",
      "deviation", "resolution", "tile_size", "texture_mesh", "generate_video",
      "generate_report", "threads", "memory_limit">>

\* an apply_preset that takes 'Custom' for 'Default'
apply_preset_custom_as_default(o, preset_name) ==
    IF preset_name \in PresetItems
    THEN apply_config(o, presets[IF preset_name = "Custom" THEN "Default"
                                 ELSE preset_name], PRESET_FIELDS)
    ELSE o

\* apply_preset: the option widgets afterwards
apply_preset(o, preset_name) ==
    IF preset_name = "Custom" THEN o
    ELSE IF preset_name \in PRESET_NAMES
    THEN apply_config(o, presets[preset_name], PRESET_FIELDS)
    ELSE o

\* the line apply_preset appends to the status log
apply_preset_log(preset_name) ==
    IF preset_name \in PRESET_NAMES
    THEN <<"Applied " \o preset_name \o " preset configuration">>
    ELSE <<>>

\* a handler that works on the options or the GCPs only
RunsAlone(name, arg, log) ==
    /\ op' = [name |-> name, arg |-> arg]
    /\ status_text' = log
    /\ seen' = -1
    /\ raised' = FALSE
    /\ reqs' = <<>>
    /\ imported' = NoImport
    /\ restarted' = FALSE
    /\ UNCHANGED <<connVars, current_project, status_timer, orphan_timers,
                   start_task_btn, stop_task_btn, delete_task_btn, image_paths,
                   projects_list, results_task_combo, results_text, progress_bar>>

\* the user picks another entry of the preset selector: currentTextChanged
\* runs apply_preset with the new text
SelectPresetAmong(names) ==
    \E name \in names :
        /\ name # preset_combo
        /\ preset_combo' = name
        /\ opts' = apply_preset(opts, name)
        /\ RunsAlone("apply_preset", name, apply_preset_log(name))
        /\ UNCHANGED <<edits, project_file, gcpVars>>

SelectPreset == SelectPresetAmong(PresetItems)

\* values the user gives an option widget by hand
EditValues(field) ==
    IF field \in ComboFields
    THEN {ComboItems[field][i] : i \in 1..Len(ComboItems[field])}
    ELSE IF field \in SpinFields
    THEN {SpinRange[field].lo, SpinRange[field].hi}
    ELSE BOOLEAN

\* the user changes one option widget; no handler is connected to that
EditOptionAmong(fields) ==
    /\ edits < MaxEdits
    /\ \E field \in fields : \E value \in EditValues(field) :
           /\ value # opts[field]
           /\ opts' = [opts EXCEPT ![field] = value]
           /\ edits' = edits + 1
           /\ RunsAlone("edit_option", field, <<>>)
    /\ UNCHANGED <<preset_combo, project_file, gcpVars>>

EditOption == EditOptionAmong(DOMAIN opts)

\* apply_preset('Default') at the end of __init__; preset_combo was set to
\* 'Default' before its signal was connected
OptInit ==
    /\ opts = apply_preset(WidgetDefaults, "Default")
    /\ preset_combo = "Default"
    /\ edits = 0
    /\ project_file = NoneVal

PresetNext == SelectPreset \/ EditOption

(***************************************************************************)
(* ODMDialog.select_project                                                *)
(***************************************************************************)
ID_MARK == <<"I", "D", ":", " ">>
NOT_AVAILABLE == <<"N", "/", "A">>

\* The task id select_project reads from an item text "Name (ID: uuid) -
\* Status": the text between the first 'ID: ' and the next ')', stripped;
\* NoText when the handler only shows a warning.  The fallback search for a
\* 36-character hexadecimal UUID finds nothing in the short texts of this
\* model.
parsed_task_id(task_text) ==
    IF Contains(task_text, ID_MARK) /\ Contains(task_text, <<")">>)
    THEN LET task_id == Strip(SplitPart(SplitPart(task_text, ID_MARK, 1), <<")">>, 0))
         IN  IF task_id # <<>> /\ task_id # NOT_AVAILABLE THEN task_id ELSE NoText
    ELSE NoText

\* the slot of projects_list.itemClicked and of images_list.itemClicked; an
\* exception of update_task_buttons is caught and shown as a warning
select_project(d, task_text, resp) ==
    LET task_id == parsed_task_id(task_text)
    IN  IF task_id = NoText THEN d
        ELSE [update_task_buttons([d EXCEPT !.current_project = task_id,
                                            !.delete_task_btn = TRUE], resp)
                 EXCEPT !.raised = FALSE]

(***************************************************************************)
(* ODMDialog.stop_task, delete_task                                        *)
(***************************************************************************)
\* a stop_task that leaves the timer alone
stop_task_keeps_timer(d, reply_yes, resp) ==
    IF ~Truthy(d.current_project) \/ ~reply_yes THEN d
    ELSE LET r == cancel_task(token, d.current_project, resp)
             d1 == [d EXCEPT !.reqs = @ \o r.reqs]
         IN  IF r.ret
             THEN [Log(d1, "Task stopped successfully")
                      EXCEPT !.stop_task_btn = FALSE, !.start_task_btn = TRUE]
             ELSE Log(d1, "Failed to stop task")

stop_task(d, reply_yes, resp) ==
    IF ~Truthy(d.current_project) \/ ~reply_yes THEN d
    ELSE LET r == cancel_task(token, d.current_project, resp)
             d1 == [d EXCEPT !.reqs = @ \o r.reqs]
         IN  IF r.ret
             THEN stop_status_timer(
                      [Log(d1, "Task stopped successfully")
                          EXCEPT !.stop_task_btn = FALSE, !.start_task_btn = TRUE])
             ELSE Log(d1, "Failed to stop task")

delete_task(d, reply_yes, resp, listResp, infoResp) ==
    IF ~Truthy(d.current_project) \/ ~reply_yes THEN d
    ELSE LET r == delete_task_request(token, d.current_project, resp)
             d1 == [d EXCEPT !.reqs = @ \o r.reqs]
         IN  IF r.ret
             THEN LET d2 == stop_status_timer(
                                [Log(d1, "Task deleted successfully")
                                    EXCEPT !.current_project = NoText,
                                           !.delete_task_btn = FALSE,
                                           !.stop_task_btn = FALSE,
                                           !.start_task_btn = Len(d.image_paths) > 0])
                      d3 == load_projects(d2, listResp, infoResp)
                  \* setCurrentIndex(0): the index is 0 already, no signal
                  IN  [d3 EXCEPT !.results_text = <<>>]
             ELSE Log(d1, "Failed to delete task")

(***************************************************************************)
(* ODMDialog.start_task_processing, add_images, clear_images               *)
(***************************************************************************)
\* an exception of create_task (an image that cannot be opened) leaves the
\* handler after the log line and the progress bar change
start_task_processing(d, named, openable, postResp, listResp, infoResp, respStatus) ==
    IF Len(d.image_paths) = 0 \/ ~named THEN d
    ELSE LET d1 == [Log(d, "Creating task") EXCEPT !.progress_bar = TRUE]
             r == create_task(token, d.image_paths, openable, postResp)
             d2 == [d1 EXCEPT !.reqs = @ \o r.reqs]
         IN  IF r.raised THEN [d2 EXCEPT !.raised = TRUE]
             ELSE IF r.ret = NoneVal THEN [d2 EXCEPT !.progress_bar = FALSE]
             ELSE LET d3 == load_projects([d2 EXCEPT !.current_project = r.ret.uuid],
                                          listResp, infoResp)
                      d4 == start_status_monitoring(d3, respStatus)
                  IN  [d4 EXCEPT !.start_task_btn = FALSE, !.stop_task_btn = TRUE]

add_images(d, files) == [d EXCEPT !.image_paths = @ \o files]

clear_images(d) == [d EXCEPT !.image_paths = <<>>]

(***************************************************************************)
(* The environment of the dialog                                           *)
(***************************************************************************)
\* status fields a detail answer may carry: a dict with any code, or a
\* plain integer
StatusFields == {StatusDict(c) : c \in Codes} \cup {StatusInt(40)}

\* the status fields the polling model is run with: RUNNING and the three
\* terminal codes
PollFields == {StatusDict(c) : c \in {20, 30, 40, 50}}

\* the status fields of the listings the polling model is run with
ListedFields == {StatusDict(20)}

\* 200 answers of GET /task/{uuid}/info; an id the server does not know (a
\* misread one) gets none
TaskInfoOk(task_id, fields) ==
    IF task_id \in UUIDs
    THEN {Resp(200, TaskInfo(task_id, NameOf(task_id), st)) : st \in fields}
    ELSE {}

\* answers to get_task_info for the task the dialog asks about: a 200, or a
\* failure (get_task_info makes None of an exception and of a non-200 alike)
TaskInfoResps(task_id, fields) == {Exc} \cup TaskInfoOk(task_id, fields)

\* /task/list bodies: the server lists each of its tasks once
ListBodies ==
    {s \in SeqsUpTo(ListItems, MaxList) :
        /\ \A i \in 1..Len(s) : s[i].uuid # <<>>
        /\ \A i, j \in 1..Len(s) : i < j => s[i].uuid # s[j].uuid}

\* the detail answers to go with the listing b: for each listed task one
\* of resps
DetailAnswers(b, resps) ==
    {g \in [UUIDs \cup {<<>>} -> {Exc} \cup UNION {resps[u] : u \in UUIDs}] :
        /\ g[<<>>] = Exc
        /\ \A u \in UUIDs :
              IF \E i \in 1..Len(b) : b[i].uuid = u
              THEN g[u] \in resps[u]
              ELSE g[u] = Exc}

\* answers to the requests of one get_tasks(): the listing fails, or it
\* answers and every detail request is answered (200 or not)
ListAnswers(fields) ==
    LET resps == [u \in UUIDs |-> {RespNoJson(404)} \cup TaskInfoOk(u, fields)]
    IN  {[list |-> Exc, info |-> [u \in UUIDs \cup {<<>>} |-> Exc]]} \cup
        UNION {{[list |-> Resp(200, b), info |-> f] : f \in DetailAnswers(b, resps)} :
                  b \in ListBodies}

\* the listings of the polling model: every listed task is RUNNING
PollListAnswers ==
    {a \in ListAnswers(ListedFields) :
        \A u \in UUIDs : a.info[u] = Exc \/ a.info[u].status = 200}

\* the listings of the label model: the tasks that are answered carry the
\* same status field, any one of StatusFields; the others become stubs
LabelListAnswers == UNION {ListAnswers({st}) : st \in StatusFields}

SuccessResps == {Exc, RespNoJson(500), Resp(200, [success |-> TRUE]),
                 Resp(200, [success |-> FALSE])}

DialogPostResps == {Exc} \cup {Resp(200, [uuid |-> u]) : u \in UUIDs}

\* the UUID of the task shown at position i of the Tasks list (the Results
\* selector holds the same tasks, after 'No task selected')
ShownUuid(i) == results_task_combo.items[i + 1].data

(***************************************************************************)
(* The dialog's handlers as actions                                        *)
(***************************************************************************)
\* the user picks entry i of the Results selector; picking the current
\* entry emits no signal
SelectResultsTaskWith(fields) ==
    \E i \in 0..(Len(results_task_combo.items) - 1) :
        /\ i # results_task_combo.index
        /\ LET d == [Dialog EXCEPT !.results_task_combo.index = i]
               uuid == currentData(d.results_task_combo)
           IN  \E respButtons \in TaskInfoResps(uuid, fields) :
                   IF status_timer = "unset" \/ ~Truthy(uuid)
                   THEN Becomes("select_results_task", uuid,
                                select_results_task(d, respButtons, Exc))
                   ELSE \E respStatus \in TaskInfoResps(uuid, fields) :
                            Becomes("select_results_task", uuid,
                                    select_results_task(d, respButtons, respStatus))

\* the user clicks item i of the Tasks list
SelectProjectWith(fields) ==
    \E i \in 1..Len(projects_list) :
        \E resp \in TaskInfoResps(parsed_task_id(projects_list[i]), fields) :
            Becomes("select_project", ShownUuid(i),
                    select_project(Dialog, projects_list[i], resp))

\* the status codes of the tasks get_tasks() returns for the answers a
ListedCodes(a) ==
    LET tasks == get_tasks(token, a.list, a.info).ret
    IN  [i \in 1..Len(tasks) |-> tasks[i].status.code]

\* the "Refresh Tasks" button
LoadProjectsWith(answers) ==
    \E a \in answers :
        Becomes("load_projects", ListedCodes(a), load_projects(Dialog, a.list, a.info))

\* "Stop Task": nothing happens without a task or when the user answers No
StopTask ==
    /\ Truthy(current_project)
    /\ \E resp \in SuccessResps :
           Becomes("stop_task", <<>>, stop_task(Dialog, TRUE, resp))

\* "Delete Task"
DeleteTask ==
    /\ Truthy(current_project)
    /\ \E resp \in SuccessResps :
           IF resp.kind = "resp" /\ resp.json /\ resp.body.success
           THEN \E a \in PollListAnswers :
                    Becomes("delete_task", <<>>,
                            delete_task(Dialog, TRUE, resp, a.list, a.info))
           ELSE Becomes("delete_task", <<>>,
                        delete_task(Dialog, TRUE, resp, Exc, Exc))

\* "Create Task & Start Processing" with images and a task name given
StartTaskProcessing ==
    /\ Len(image_paths) > 0
    /\ \E openable \in {{}, ImagePaths}, postResp \in DialogPostResps :
           IF FirstUnopenable(image_paths, openable) = 0
                  /\ postResp.kind = "resp" /\ postResp.json
           THEN \E a \in PollListAnswers,
                   respStatus \in {Exc, Resp(200, TaskInfo(postResp.body.uuid,
                                        NameOf(postResp.body.uuid), StatusDict(20)))} :
                    Becomes("start_task_processing", postResp.body.uuid,
                            start_task_processing(Dialog, TRUE, openable, postResp,
                                                  a.list, a.info, respStatus))
           ELSE Becomes("start_task_processing", <<>>,
                        start_task_processing(Dialog, TRUE, openable, postResp,
                                              Exc, Exc, Exc))

\* the "Refresh Status" button
RefreshStatusWith(fields) ==
    \E resp \in TaskInfoResps(current_project, fields) :
        Becomes("refresh_status", <<>>, refresh_status(Dialog, resp))

\* a timeout of a running status timer runs refresh_status
TimerTick ==
    /\ status_timer = "active" \/ orphan_timers > 0
    /\ \E resp \in TaskInfoResps(current_project, PollFields) :
           Becomes("timer_tick", <<>>, refresh_status(Dialog, resp))

AddImages ==
    \E file \in {<<"a">>} :
        /\ Len(image_paths) < MaxImages
        /\ Becomes("add_images", <<>>, add_images(Dialog, <<file>>))

ClearImages ==
    /\ image_paths # <<>>
    /\ Becomes("clear_images", <<>>, clear_images(Dialog))

\* the user clicks item i of the images list, which shows the file names
ClickImage ==
    \E i \in 1..Len(image_paths) :
        Becomes("select_project", <<>>, select_project(Dialog, image_paths[i], Exc))

\* __init__ and init_ui up to the call of load_projects(): no task, no
\* timer attribute, Stop and Delete disabled, the selector holding
\* 'No task selected'
NewDialog ==
    [current_project |-> NoText, status_timer |-> "unset", orphan_timers |-> 0,
     start_task_btn |-> TRUE, stop_task_btn |-> FALSE, delete_task_btn |-> FALSE,
     image_paths |-> <<>>, projects_list |-> <<>>,
     results_task_combo |-> [items |-> <<NoTaskSelected>>, index |-> 0],
     results_text |-> <<>>, progress_bar |-> TRUE, status_text |-> <<>>,
     seen |-> -1, reqs |-> <<>>, raised |-> FALSE, imported |-> NoImport,
     restarted |-> FALSE]

DialogIs(name, d) ==
    /\ op = [name |-> name, arg |-> <<>>]
    /\ current_project = d.current_project
    /\ status_timer = d.status_timer
    /\ orphan_timers = d.orphan_timers
    /\ start_task_btn = d.start_task_btn
    /\ stop_task_btn = d.stop_task_btn
    /\ delete_task_btn = d.delete_task_btn
    /\ image_paths = d.image_paths
    /\ projects_list = d.projects_list
    /\ results_task_combo = d.results_task_combo
    /\ results_text = d.results_text
    /\ progress_bar = d.progress_bar
    /\ status_text = d.status_text \o apply_preset_log("Default")
    /\ seen = d.seen
    /\ imported = d.imported
    /\ restarted = d.restarted

\* the dialog as constructed while the server cannot be reached
TaskInitOffline ==
    DialogIs("init", load_projects(NewDialog, Exc, [u \in UUIDs \cup {<<>>} |-> Exc]))

\* the dialog as constructed, for any answer of the server
TaskInit ==
    \E a \in PollListAnswers :
        DialogIs("init", load_projects(NewDialog, a.list, a.info))

TaskNext ==
    \/ SelectResultsTaskWith(PollFields)
    \/ SelectProjectWith(PollFields)
    \/ LoadProjectsWith(PollListAnswers)
    \/ StopTask
    \/ DeleteTask
    \/ StartTaskProcessing
    \/ RefreshStatusWith(PollFields)
    \/ TimerTick
    \/ AddImages
    \/ ClearImages
    \/ ClickImage

\* listing, selecting and refreshing with every status field
LabelNext ==
    \/ LoadProjectsWith(LabelListAnswers)
    \/ SelectProjectWith(ListedFields)
    \/ RefreshStatusWith(StatusFields)

(***************************************************************************)
(* Numbers in GCP texts                                                    *)
(***************************************************************************)
\* A coordinate is an integer number of hundredths: the dialogs' spin boxes
\* have at most two decimals, and so have the numbers in the files of this
\* model.

\* Python: str(x) of the float x = h/100: the shortest decimal, with at
\* least one digit after the point
FormatFloat(h) ==
    LET a == IF h < 0 THEN -h ELSE h
        frac == a % 100
    IN  (IF h < 0 THEN <<"-">> ELSE <<>>) \o NatStr(a \div 100) \o <<".">> \o
        (IF frac % 10 = 0 THEN <<Digit(frac \div 10)>>
         ELSE <<Digit(frac \div 10), Digit(frac % 10)>>)

\* Python: f"{x:.2f}"
Format2f(h) ==
    LET a == IF h < 0 THEN -h ELSE h
    IN  (IF h < 0 THEN <<"-">> ELSE <<>>) \o NatStr(a \div 100) \o
        <<".", Digit((a % 100) \div 10), Digit(a % 10)>>

DigitChars == {"0", "1", "2", "3", "4", "5", "6", "7", "8", "9"}

DigitValue(c) == CHOOSE d \in 0..9 : Digit(d) = c

\* the number a sequence of digits denotes
RECURSIVE DigitsValue(_)
DigitsValue(ds) ==
    IF ds = <<>> THEN 0
    ELSE 10 * DigitsValue(SubSeq(ds, 1, Len(ds) - 1)) + DigitValue(ds[Len(ds)])

\* Python: float(text) for a decimal literal with at most two decimals:
\* [sign] digits [. digits], at least one digit; anything else is a
\* ValueError
ParseFloat(text) ==
    LET signed == text # <<>> /\ text[1] \in {"-", "+"}
        body == IF signed THEN Tail(text) ELSE text
        dot == Find(body, <<".">>, 1)
        whole == IF dot = 0 THEN body ELSE SubSeq(body, 1, dot - 1)
        frac == IF dot = 0 THEN <<>> ELSE SubSeq(body, dot + 1, Len(body))
        wellFormed ==
            /\ Len(whole) + Len(frac) > 0
            /\ Len(frac) <= 2
            /\ \A i \in 1..Len(whole) : whole[i] \in DigitChars
            /\ \A i \in 1..Len(frac) : frac[i] \in DigitChars
        hundredths ==
            100 * DigitsValue(whole) +
            (IF Len(frac) = 0 THEN 0
             ELSE IF Len(frac) = 1 THEN 10 * DigitsValue(frac)
             ELSE DigitsValue(frac))
    IN  IF wellFormed
        THEN [ok |-> TRUE,
              value |-> IF signed /\ text[1] = "-" THEN -hundredths ELSE hundredths]
        ELSE [ok |-> FALSE, value |-> 0]

\* Python: text.split(): the maximal runs of non-whitespace characters
RECURSIVE Fields(_)
Fields(text) ==
    LET s == Strip(text)
        gaps == {i \in 1..Len(s) : s[i] \in Whitespace}
    IN  IF s = <<>> THEN <<>>
        ELSE IF gaps = {} THEN <<s>>
        ELSE <<SubSeq(s, 1, Min(gaps) - 1)>> \o
             Fields(SubSeq(s, Min(gaps) + 1, Len(s)))

\* Python: sep.join(parts)
RECURSIVE Join(_, _)
Join(sep, parts) ==
    IF parts = <<>> THEN <<>>
    ELSE IF Len(parts) = 1 THEN parts[1]
    ELSE parts[1] \o sep \o Join(sep, Tail(parts))

\* Python: text.upper()
Upper(text) ==
    LET LowerCase ==
            <<"a", "b", "c", "d", "e", "f", "g", "h", "i", "j", "k", "l", "m",
              "n", "o", "p", "q", "r", "s", "t", "u", "v", "w", "x", "y", "z">>
        UpperCase ==
            <<"A", "B", "C", "D", "E", "F", "G", "H", "I", "J", "K", "L", "M",
              "N", "O", "P", "Q", "R", "S", "T", "U", "V", "W", "X", "Y", "Z">>
    IN  [i \in 1..Len(text) |->
            IF \E k \in 1..26 : LowerCase[k] = text[i]
            THEN UpperCase[CHOOSE k \in 1..26 : LowerCase[k] = text[i]]
            ELSE text[i]]

(***************************************************************************)
(* ODMDialog: the GCP file parser and writer                               *)
(***************************************************************************)
EPSG_4326 == <<"E", "P", "S", "G", ":", "4", "3", "2", "6">>
PROJ_PREFIX == <<"+", "p", "r", "o", "j", "=">>
EPSG_PREFIX == <<"E", "P", "S", "G", ":">>
UTM == <<"U", "T", "M">>

\* a check for 'UTM' that does not fold the case
projection_line_case_sensitive(text) ==
    LET line == Strip(text)
    IN  StartsWith(line, PROJ_PREFIX) \/ StartsWith(line, EPSG_PREFIX)
            \/ Contains(line, UTM)

_is_projection_line(text) ==
    LET line == Strip(text)
    IN  StartsWith(line, PROJ_PREFIX) \/ StartsWith(line, EPSG_PREFIX)
            \/ Contains(Upper(line), UTM)

\* a message box: its title, the line of the file it names (0: none) and
\* which of the texts under that title it shows
Msg(title, line_num, text) == [title |-> title, line |-> line_num, text |-> text]

\* a record that takes its label from the last field
gcp_record_last_field_as_name(parts, line_num, n) ==
    LET f == [i \in 1..5 |-> ParseFloat(parts[i])]
    IN  IF \A i \in 1..5 : f[i].ok
        THEN [points |->
                  <<[id |-> n + 1, world_x |-> f[1].value,
                     world_y |-> f[2].value, world_z |-> f[3].value,
                     image_x |-> f[4].value, image_y |-> f[5].value,
                     filename |-> parts[6],
                     gcp_name |-> IF Len(parts) > 6 THEN parts[Len(parts)] ELSE <<>>,
                     line_num |-> line_num]>>,
              msgs |-> <<>>]
        ELSE [points |-> <<>>,
              msgs |-> <<Msg("Parse Error", line_num, "Error parsing line")>>]

\* the branch num_parts >= 6 of load_gcp_file: the point of the record, or
\* the message box of the ValueError of float()
gcp_record(parts, line_num, n) ==
    LET f == [i \in 1..5 |-> ParseFloat(parts[i])]
    IN  IF \A i \in 1..5 : f[i].ok
        THEN [points |->
                  <<[id |-> n + 1, world_x |-> f[1].value,
                     world_y |-> f[2].value, world_z |-> f[3].value,
                     image_x |-> f[4].value, image_y |-> f[5].value,
                     filename |-> parts[6],
                     gcp_name |-> IF Len(parts) > 6 THEN parts[7] ELSE <<>>,
                     line_num |-> line_num]>>,
              msgs |-> <<>>]
        ELSE [points |-> <<>>,
              msgs |-> <<Msg("Parse Error", line_num, "Error parsing line")>>]

\* a branch num_parts == 4 that reports the count of fields
four_fields_as_field_count(parts, line_num) ==
    [points |-> <<>>,
     msgs |-> <<Msg("Parse Error", line_num, "Expected 6+ fields")>>]

\* the branch num_parts == 4 of load_gcp_file: float() of the second, third
\* and fourth field decides between the two message boxes
four_fields(parts, line_num) ==
    IF \A i \in 2..4 : ParseFloat(parts[i]).ok
    THEN [points |-> <<>>,
          msgs |-> <<Msg("Incomplete GCP Data", line_num, "missing")>>]
    ELSE [points |-> <<>>,
          msgs |-> <<Msg("Parse Error", line_num, "fields 2-4")>>]

\* an else branch that skips the line without a message box
other_field_count_silent(line_num) == [points |-> <<>>, msgs |-> <<>>]

\* the else branch of load_gcp_file: "Expected 6+ fields (...), got
\* {num_parts} fields."
other_field_count(line_num) ==
    [points |-> <<>>,
     msgs |-> <<Msg("Parse Error", line_num, "Expected 6+ fields")>>]

\* one data line of load_gcp_file: the point it adds, if any, and the
\* message box it shows, if any; n is len(self.gcp_points) before
parse_data_line(text, line_num, n) ==
    LET line == Strip(text)
        parts == Fields(line)
        num_parts == Len(parts)
    IN  IF line = <<>> \/ StartsWith(line, <<"#">>)
        THEN [points |-> <<>>, msgs |-> <<>>]
        ELSE IF num_parts >= 6 THEN gcp_record(parts, line_num, n)
        ELSE IF num_parts = 4 THEN four_fields(parts, line_num)
        ELSE other_field_count(line_num)

\* the for loop of load_gcp_file over the data lines
RECURSIVE parse_data_lines(_, _, _, _)
parse_data_lines(data_lines, line_num, points, msgs) ==
    IF data_lines = <<>> THEN [points |-> points, msgs |-> msgs]
    ELSE LET r == parse_data_line(Head(data_lines), line_num, Len(points))
         IN  parse_data_lines(Tail(data_lines), line_num + 1,
                              points \o r.points, msgs \o r.msgs)

COMMENT_LINES ==
    <<<<"#", " ", "G", "C", "P", " ", "f", "i", "l", "e", " ", "g", "e", "n",
            "e", "r", "a", "t", "e", "d", " ", "b", "y", " ", "O", "D", "M",
            " ", "F", "r", "o", "n", "t", "e", "n", "d">>,
      <<"#", " ", "C", "o", "m", "p", "a", "t", "i", "b", "l", "e", " ", "w",
            "i", "t", "h", " ", "O", "p", "e", "n", "D", "r", "o", "n", "e",
            "M", "a", "p", "/", "W", "e", "b", "O", "D", "M">>,
      <<"#", " ", "F", "o", "r", "m", "a", "t", ":", " ", "g", "e", "o", "_",
            "x", " ", "g", "e", "o", "_", "y", " ", "g", "e", "o", "_", "z",
            " ", "i", "m", "_", "x", " ", "i", "m", "_", "y", " ", "f", "i",
            "l", "e", "n", "a", "m", "e", " ", "[", "g", "c", "p", "_", "n",
            "a", "m", "e", "]">>,
      <<"#", " ", "F", "i", "e", "l", "d", "s", " ", "s", "e", "p", "a", "r",
            "a", "t", "e", "d", " ", "b", "y", " ", "t", "a", "b", "s">>>>

\* a line that always ends with the label field
gcp_line_always_name(gcp) ==
    Join(<<"\t">>, <<FormatFloat(gcp.world_x), FormatFloat(gcp.world_y),
                     FormatFloat(gcp.world_z), FormatFloat(gcp.image_x),
                     FormatFloat(gcp.image_y), gcp.filename,
                     IF Truthy(gcp.gcp_name) THEN gcp.gcp_name ELSE <<>>>>)

\* the line save_gcp_file writes for one point; add_gcp_point leaves the
\* key gcp_name out (NoText here)
gcp_line(gcp) ==
    LET fields == <<FormatFloat(gcp.world_x), FormatFloat(gcp.world_y),
                    FormatFloat(gcp.world_z), FormatFloat(gcp.image_x),
                    FormatFloat(gcp.image_y), gcp.filename>>
    IN  Join(<<"\t">>, IF Truthy(gcp.gcp_name)
                       THEN Append(fields, gcp.gcp_name) ELSE fields)

\* the lines save_gcp_file writes
save_gcp_lines(points, projection) ==
    <<IF Truthy(projection) THEN projection ELSE EPSG_4326>> \o COMMENT_LINES \o
    [i \in 1..Len(points) |-> gcp_line(points[i])]

GCP_WORD == <<"G", "C", "P", " ">>

\* an item text of update_gcp_list; ">" stands for the arrow
gcp_item_text(gcp) ==
    Concat(<<GCP_WORD, NatStr(gcp.id),
             IF Truthy(gcp.gcp_name)
             THEN <<" ", "(">> \o gcp.gcp_name \o <<")">> ELSE <<>>,
             <<":", " ", "(">>, Format2f(gcp.world_x), <<",", " ">>,
             Format2f(gcp.world_y), <<",", " ">>, Format2f(gcp.world_z),
             <<")", " ", ">", " ">>, gcp.filename>>)

\* Python: text.rstrip(':')
RECURSIVE rstrip_colon(_)
rstrip_colon(text) ==
    IF text # <<>> /\ text[Len(text)] = ":"
    THEN rstrip_colon(SubSeq(text, 1, Len(text) - 1)) ELSE text

\* int(text.split()[1].rstrip(':')) of an item text: the id, or -1 for the
\* exception (no second field, or not a number)
item_gcp_id(text) ==
    LET parts == Fields(text)
        digits == IF Len(parts) >= 2 THEN rstrip_colon(parts[2]) ELSE <<>>
    IN  IF digits # <<>> /\ \A i \in 1..Len(digits) : digits[i] \in DigitChars
        THEN DigitsValue(digits) ELSE -1

(***************************************************************************)
(* ODMDialog: the GCP handlers                                             *)
(***************************************************************************)
\* The GCP state as one record; msgs starts empty at every handler.  The
\* bookkeeping of the file path (current_gcp_file, gcp_file_path) is left
\* out: no handler reads it.
Gcp ==
    [points |-> gcp_points, projection |-> gcp_projection, list |-> gcp_list,
     current |-> gcp_current, buttons |-> gcp_buttons, info |-> gcp_info,
     file |-> gcp_file, written |-> written_points, msgs |-> <<>>]

Show(g, title, text) == [g EXCEPT !.msgs = Append(@, Msg(title, 0, text))]

\* gcp_list.clear() leaves no current item
update_gcp_list(g) ==
    [g EXCEPT !.list = [i \in 1..Len(g.points) |-> gcp_item_text(g.points[i])],
              !.current = 0]

clear_gcp_info(g) == [g EXCEPT !.info = NoneVal, !.buttons = FALSE]

\* index in points of the first point with the id, 0 when there is none
PointWithId(points, gcp_id) ==
    LET hits == {i \in 1..Len(points) : points[i].id = gcp_id}
    IN  IF hits = {} THEN 0 ELSE Min(hits)

\* select_gcp_point for an item with the text given
select_gcp_point(g, text) ==
    IF ~StartsWith(text, GCP_WORD) THEN g
    ELSE LET gcp_id == item_gcp_id(text)
             k == PointWithId(g.points, gcp_id)
         IN  IF gcp_id = -1 \/ k = 0 THEN clear_gcp_info(g)
             ELSE [g EXCEPT !.info = g.points[k], !.buttons = TRUE]

\* a file the user picks in the open dialog
UNREADABLE == [kind |-> "unreadable", lines |-> <<>>]
ReadableFile(lines) == [kind |-> "file", lines |-> lines]

\* what load_gcp_file makes of the lines of a file that is not empty: the
\* projection, the points and the message boxes of the data lines
read_gcp_lines(lines) ==
    LET first_line == Strip(lines[1])
        header == _is_projection_line(first_line)
        r == parse_data_lines(IF header THEN Tail(lines) ELSE lines,
                              IF header THEN 2 ELSE 1, <<>>, <<>>)
    IN  [projection |-> IF header THEN first_line ELSE EPSG_4326,
         points |-> r.points, msgs |-> r.msgs]

\* read is read_gcp_lines(file.lines) for a file with lines
load_gcp_file(g, file, read) ==
    IF file.kind = "cancelled" THEN g
    ELSE LET g1 == [g EXCEPT !.points = <<>>, !.projection = NoText]
         IN  IF file.kind = "unreadable"
             THEN Show(g1, "Error", "Failed to load GCP file")
             ELSE IF file.lines = <<>>
             THEN Show(g1, "Empty File", "The selected file is empty.")
             ELSE LET g2 == [g1 EXCEPT !.projection = read.projection,
                                       !.points = read.points,
                                       !.msgs = read.msgs]
                  IN  IF read.points # <<>>
                      THEN Show(update_gcp_list(g2), "Success", "Loaded")
                      ELSE Show(g2, "No GCPs Found", "No valid GCP points")

\* outcome is what the save dialog and open(file_path, 'w') do
save_gcp_file(g, outcome) ==
    IF g.points = <<>> THEN Show(g, "Warning", "No GCP points to save.")
    ELSE IF outcome = "cancelled" THEN g
    ELSE IF outcome = "unwritable" THEN Show(g, "Error", "Failed to save GCP file")
    ELSE Show([g EXCEPT !.file = save_gcp_lines(g.points, g.projection),
                        !.written = g.points], "Success", "Saved")

\* the dict add_gcp_point appends has no key gcp_name
add_gcp_point(g, accepted, values) ==
    IF ~accepted THEN g
    ELSE LET gcp_point ==
                 [id |-> Len(g.points) + 1, world_x |-> values.world_x,
                  world_y |-> values.world_y, world_z |-> values.world_z,
                  image_x |-> values.image_x, image_y |-> values.image_y,
                  filename |-> values.filename, gcp_name |-> NoText,
                  line_num |-> 0]
         IN  Show(update_gcp_list([g EXCEPT !.points = Append(@, gcp_point)]),
                  "Success", "added")

\* gcp.update(values)
updated(gcp, values) ==
    [gcp EXCEPT !.world_x = values.world_x, !.world_y = values.world_y,
                !.world_z = values.world_z, !.image_x = values.image_x,
                !.image_y = values.image_y, !.filename = values.filename]

\* After update_gcp_list() the item current_item names has been deleted by
\* gcp_list.clear(); select_gcp_point(current_item) reads it all the same.
\* stale is what that read gives: "text" (the old text is still there),
\* "error" (an exception, caught in select_gcp_point) or "garbage" (a text
\* that does not start with 'GCP ').
edit_gcp_point(g, accepted, values, stale) ==
    IF g.current = 0 THEN g
    ELSE LET text == g.list[g.current]
             gcp_id == item_gcp_id(text)
             k == PointWithId(g.points, gcp_id)
         IN  IF gcp_id = -1 THEN Show(g, "Error", "Failed to edit GCP point")
             ELSE IF k = 0 \/ ~accepted THEN g
             ELSE LET g1 == update_gcp_list(
                                [g EXCEPT !.points[k] = updated(@, values)])
                      g2 == IF stale = "text" THEN select_gcp_point(g1, text)
                            ELSE IF stale = "error" THEN clear_gcp_info(g1)
                            ELSE g1
                  IN  Show(g2, "Success", "updated")

\* enumerate(self.gcp_points, 1): gcp['id'] = i
renumbered(points) == [i \in 1..Len(points) |-> [points[i] EXCEPT !.id = i]]

\* [g for g in self.gcp_points if g['id'] != gcp_id]
RECURSIVE without_id(_, _)
without_id(points, gcp_id) ==
    IF points = <<>> THEN <<>>
    ELSE IF Head(points).id = gcp_id THEN without_id(Tail(points), gcp_id)
    ELSE <<Head(points)>> \o without_id(Tail(points), gcp_id)

\* a remove_gcp_point that does not renumber
remove_gcp_point_keeps_ids(g, reply_yes) ==
    IF g.current = 0 THEN g
    ELSE LET gcp_id == item_gcp_id(g.list[g.current])
         IN  IF gcp_id = -1 THEN Show(g, "Error", "Failed to delete GCP point")
             ELSE IF ~reply_yes THEN g
             ELSE Show(clear_gcp_info(update_gcp_list(
                           [g EXCEPT !.points = without_id(@, gcp_id)])),
                       "Success", "GCP point deleted")

remove_gcp_point(g, reply_yes) ==
    IF g.current = 0 THEN g
    ELSE LET gcp_id == item_gcp_id(g.list[g.current])
         IN  IF gcp_id = -1 THEN Show(g, "Error", "Failed to delete GCP point")
             ELSE IF ~reply_yes THEN g
             ELSE Show(clear_gcp_info(update_gcp_list(
                           [g EXCEPT !.points = renumbered(without_id(@, gcp_id))])),
                       "Success", "GCP point deleted")

(***************************************************************************)
(* The GCP handlers as actions                                             *)
(***************************************************************************)
GcpBecomes(name, arg, g) ==
    /\ gcp_points' = g.points
    /\ gcp_projection' = g.projection
    /\ gcp_list' = g.list
    /\ gcp_current' = g.current
    /\ gcp_buttons' = g.buttons
    /\ gcp_info' = g.info
    /\ gcp_file' = g.file
    /\ written_points' = g.written
    /\ gcp_msgs' = g.msgs
    /\ RunsAlone(name, arg, <<>>)
    /\ UNCHANGED optVars

\* what the user enters in the Add and Edit dialogs
DialogValues ==
    {[world_x |-> 150, world_y |-> 200, world_z |-> 0, image_x |-> 1000,
      image_y |-> 2050, filename |-> <<>>],
     [world_x |-> -25, world_y |-> 200, world_z |-> 0, image_x |-> 1000,
      image_y |-> 2050, filename |-> <<"a", ".", "j", "p", "g">>]}

\* lines of the files on disk
HEADER_EPSG == <<"E", "P", "S", "G", ":", "3", "2", "6", "3", "2">>

SampleLines ==
    {\* a record of six fields
     <<"1", ".", "5", " ", "2", " ", "3", ".", "2", "5", " ", "1", "0", " ", "2", "0", ".", "5", " ", "a", ".", "j", "p", "g">>,
     \* a record with a label, separated by tabs
     <<"1", ".", "5", "\t", "2", "\t", "3", "\t", "4", "\t", "5", "\t", "b", ".", "j", "p", "g", "\t", "G", "1">>,
     \* five fields
     <<"1", " ", "2", " ", "3", " ", "4", " ", "5">>}

\* the files the user may pick: with or without a projection header, up to
\* MaxLines data lines; the empty file; a file that cannot be read
SampleFiles ==
    {UNREADABLE} \cup
    {ReadableFile(ls) : ls \in SeqsUpTo(SampleLines, MaxLines)} \cup
    {ReadableFile(<<HEADER_EPSG>> \o ls) : ls \in SeqsUpTo(SampleLines, MaxLines)}

\* the sample files, each with what load_gcp_file reads from it
SampleReads ==
    {[file |-> f,
      read |-> IF f.lines = <<>> THEN NoneVal ELSE read_gcp_lines(f.lines)] :
        f \in SampleFiles}

\* "Load GCP File" with a file from disk
LoadGcpFileAmong(reads) ==
    \E s \in reads :
        GcpBecomes("load_gcp_file", s.file.kind, load_gcp_file(Gcp, s.file, s.read))

LoadGcpFile == LoadGcpFileAmong(SampleReads)

\* "Load GCP File" with the file save_gcp_file wrote
LoadSavedFile ==
    /\ gcp_file # <<>>
    /\ GcpBecomes("load_gcp_file", "saved",
                  load_gcp_file(Gcp, ReadableFile(gcp_file), read_gcp_lines(gcp_file)))

SaveGcpFile ==
    \E outcome \in {"written", "unwritable"} :
        GcpBecomes("save_gcp_file", outcome, save_gcp_file(Gcp, outcome))

AddGcpPoint ==
    /\ Len(gcp_points) < MaxPoints
    /\ \E values \in DialogValues :
           GcpBecomes("add_gcp_point", <<>>, add_gcp_point(Gcp, TRUE, values))

\* the buttons can be clicked when they are enabled
EditGcpPoint ==
    /\ gcp_buttons
    /\ \E values \in DialogValues, stale \in {"text", "error", "garbage"} :
           GcpBecomes("edit_gcp_point", <<>>,
                      edit_gcp_point(Gcp, TRUE, values, stale))

RemoveGcpPoint ==
    /\ gcp_buttons
    /\ GcpBecomes("remove_gcp_point", <<>>, remove_gcp_point(Gcp, TRUE))

\* a click on item i of the GCP list
SelectGcpPoint ==
    \E i \in 1..Len(gcp_list) :
        GcpBecomes("select_gcp_point", <<>>,
                   select_gcp_point([Gcp EXCEPT !.current = i], gcp_list[i]))

\* __init__: no points, no projection; the buttons start disabled
GcpInit ==
    /\ gcp_points = <<>>
    /\ gcp_projection = NoText
    /\ gcp_list = <<>>
    /\ gcp_current = 0
    /\ gcp_buttons = FALSE
    /\ gcp_info = NoneVal
    /\ gcp_file = <<>>
    /\ written_points = <<>>
    /\ gcp_msgs = <<>>

GcpNext ==
    \/ LoadGcpFile
    \/ AddGcpPoint
    \/ EditGcpPoint
    \/ RemoveGcpPoint
    \/ SelectGcpPoint

GcpFileNext ==
    \/ AddGcpPoint
    \/ SaveGcpFile
    \/ LoadSavedFile


\* the sample files of at most two lines
ShortReads == {s \in SampleReads : Len(s.file.lines) <= 2}

\* files loaded, points added, the points saved
GcpSaveNext ==
    \/ LoadGcpFileAmong(ShortReads)
    \/ AddGcpPoint
    \/ SaveGcpFile
(***************************************************************************)
(* GCP files of every kind of line                                         *)
(***************************************************************************)
\* most lines a file of this part has after its header
MaxFileLines == 2

\* the first lines that _is_projection_line takes for a projection
ParseHeaders ==
    {<<"E", "P", "S", "G", ":", "3", "2", "6", "3", "2">>,
     <<"+", "p", "r", "o", "j", "=", "u", "t", "m", " ", "+", "z", "o", "n", "e", "=", "3", "2">>,
     <<"W", "G", "S", "8", "4", " ", "u", "t", "m", " ", "3", "2", "N">>}

\* the other lines: records and lines load_gcp_file rejects
ParseLines ==
    {\* a record of eight fields, separated by tabs
     <<" ", "-", "1", ".", "5", "\t", "2", "\t", "3", ".", "2", "5", "\t", "1", "0", "\t", "2", "0", ".", "5", "\t", "c", ".", "j", "p", "g", "\t", "G", "2", "\t", "x">>,
     \* a record of six fields whose file name contains 'utm'
     <<"1", " ", "2", " ", "3", " ", "4", " ", "5", " ", "u", "t", "m", ".", "j", "p", "g">>,
     \* six fields, the first not a number
     <<"x", " ", "2", " ", "3", " ", "4", " ", "5", " ", "a", ".", "j", "p", "g">>,
     \* five fields
     <<"1", " ", "2", " ", "3", " ", "4", " ", "5">>,
     \* three fields
     <<"1", " ", "2", " ", "3">>,
     \* four numbers
     <<"1", " ", "2", " ", "3", " ", "4">>,
     \* four fields, the third not a number
     <<"1", " ", "2", " ", "c", " ", "4">>}

\* files with and without a projection line
ParseFiles ==
    {ReadableFile(ls) : ls \in SeqsUpTo(ParseLines, MaxFileLines)} \cup
    UNION {{ReadableFile(<<h>> \o ls) : ls \in SeqsUpTo(ParseLines, MaxFileLines - 1)} :
              h \in ParseHeaders}

\* the files, each with what load_gcp_file reads from it
ParseReads ==
    {[file |-> f,
      read |-> IF f.lines = <<>> THEN NoneVal ELSE read_gcp_lines(f.lines)] :
        f \in ParseFiles}

\* "Load GCP File" with one of the files; op.arg keeps the lines read
LoadParseFile ==
    \E s \in ParseReads :
        GcpBecomes("load_gcp_file", s.file.lines, load_gcp_file(Gcp, s.file, s.read))

GcpParseNext == LoadParseFile

(***************************************************************************)
(* ODMDialog: the project file                                             *)
(***************************************************************************)
\* project_data of save_project, as json.dump writes it and json.load reads
\* it back: strings, integers, booleans and a list of strings keep their
\* values.  The name and the base URL are left out: the model has one
\* server, whose URL is not empty.
project_data ==
    [preset |-> preset_combo, images |-> image_paths, options |-> opts,
     token |-> token]

\* save_project: a warning without images; outcome is what open(file_path,
\* 'w') does in the other case
save_project(file, outcome) ==
    IF Len(image_paths) = 0 THEN file
    ELSE IF outcome = "written" THEN project_data
    ELSE file

\* preset_combo.setCurrentText(preset) of open_project: the selector moves
\* when preset is one of its items and not the current one, and only then
\* currentTextChanged runs apply_preset
open_project_preset(preset) ==
    IF preset \in PresetItems /\ preset # preset_combo
    THEN [combo |-> preset, opts |-> apply_preset(opts, preset),
          log |-> apply_preset_log(preset)]
    ELSE [combo |-> preset_combo, opts |-> opts, log |-> <<>>]

\* "If custom preset, load manual options": the 18 setters run for the
\* preset 'Custom' only
open_project_options(data, o) ==
    IF data.preset = "Custom" THEN apply_config(o, data.options, PRESET_FIELDS)
    ELSE o

\* the lines open_project logs for the images that are not on disk
RECURSIVE image_warnings(_, _)
image_warnings(paths, existing) ==
    IF paths = <<>> THEN <<>>
    ELSE (IF Head(paths) \in existing THEN <<>>
          ELSE <<"Image not found: " \o Head(paths)[1]>>)
         \o image_warnings(Tail(paths), existing)

\* "Save Project"
SaveProject ==
    \E outcome \in {"written", "unwritable"} :
        /\ project_file' = save_project(project_file, outcome)
        /\ RunsAlone("save_project",
                     IF Len(image_paths) = 0 THEN "no images" ELSE outcome, <<>>)
        /\ UNCHANGED <<opts, preset_combo, edits, gcpVars>>

\* "Open Project" with the file save_project wrote; existing are the image
\* paths found on disk
OpenProject ==
    /\ project_file # NoneVal
    /\ \E existing \in SUBSET ImagePaths :
           LET data == project_file
               p == open_project_preset(data.preset)
           IN  /\ image_paths' = data.images
               /\ preset_combo' = p.combo
               /\ opts' = open_project_options(data, p.opts)
               /\ token' = data.token
               /\ op' = [name |-> "open_project", arg |-> "loaded"]
               /\ status_text' = image_warnings(data.images, existing) \o p.log
               /\ seen' = -1
               /\ raised' = FALSE
               /\ reqs' = <<>>
               /\ imported' = NoImport
               /\ restarted' = FALSE
    /\ UNCHANGED <<call, env, ret, handles, current_project, status_timer,
                   orphan_timers, start_task_btn, stop_task_btn,
                   delete_task_btn, projects_list, results_task_combo,
                   results_text, progress_bar, edits, project_file, gcpVars>>

\* the handlers that change what a project file holds, with the presets
\* and the option the model of the project file is run with
ProjectNext ==
    \/ AddImages
    \/ ClearImages
    \/ SelectPresetAmong({"Custom", "Default", "Fast Orthophoto"})
    \/ EditOptionAmong({"quality"})
    \/ SetCredentials
    \/ SaveProject
    \/ OpenProject

(***************************************************************************)
(* ODMDialog.import_to_qgis                                                *)
(***************************************************************************)
\* the four products in the order import_to_qgis loads them, each at its own
\* fixed path below the extracted archive
PRODUCTS == <<"orthophoto", "dsm", "dtm", "point_cloud">>

product_path(product) ==
    CASE product = "orthophoto" -> "odm_orthophoto/odm_orthophoto.tif"
      [] product = "dsm" -> "odm_dsm/odm_dsm.tif"
      [] product = "dtm" -> "odm_dtm/odm_dtm.tif"
      [] product = "point_cloud" ->
             "odm_georeferenced_model/odm_georeferenced_model.las"

\* QMessageBox of import_to_qgis, with the count it reports
Notice(d, title, count) ==
    [d EXCEPT !.imported = [@ EXCEPT !.title = title, !.count = count]]

\* one product: a layer is added when the product is selected, its file is
\* there and the layer made of it is valid; only the DTM logs when it is not
load_product_ignoring_selection(d, product, options, present, valid) ==
    IF product_path(product) \in present
    THEN IF product_path(product) \in valid
         THEN Log([d EXCEPT !.imported.layers = Append(@, product)],
                  <<"imported", product>>)
         ELSE IF product = "dtm" THEN Log(d, "DTM file exists but is invalid")
         ELSE d
    ELSE IF product = "dtm" THEN Log(d, "DTM file not found")
    ELSE d

load_product(d, product, options, present, valid) ==
    IF product \notin options THEN d
    ELSE IF product_path(product) \in present
    THEN IF product_path(product) \in valid
         THEN Log([d EXCEPT !.imported.layers = Append(@, product)],
                  <<"imported", product>>)
         ELSE IF product = "dtm" THEN Log(d, "DTM file exists but is invalid")
         ELSE d
    ELSE IF product = "dtm" THEN Log(d, "DTM file not found")
    ELSE d

RECURSIVE load_products(_, _, _, _, _)
load_products(d, k, options, present, valid) ==
    IF k > Len(PRODUCTS) THEN d
    ELSE load_products(load_product(d, PRODUCTS[k], options, present, valid),
                       k + 1, options, present, valid)

\* accepted: the import dialog was not cancelled; options: the products
\* ticked in it; extracted: the archive could be unpacked; present: the files
\* the archive holds; valid: the files QGIS makes a valid layer of
import_to_qgis(d, resp, accepted, options, download, extracted, present, valid) ==
    IF ~Truthy(d.current_project) THEN Notice(d, "No task selected", 0)
    ELSE LET r == get_task_info(token, d.current_project, resp)
             d1 == [d EXCEPT !.reqs = @ \o r.reqs]
         IN  IF r.ret = NoneVal THEN Notice(d1, "Could not get task information", 0)
             ELSE IF r.ret.status.kind = "int" THEN [d1 EXCEPT !.raised = TRUE]
             ELSE IF r.ret.status.code # 40
             THEN Notice(d1, "Task must be completed", 0)
             ELSE IF ~accepted THEN d1
             ELSE LET dl == download_results(token, d.current_project,
                                             download.resp, download.output)
                      d2 == [Log(d1, "Downloading results...")
                                 EXCEPT !.reqs = @ \o dl.reqs]
                  IN  IF dl.ret # TRUE
                      THEN Notice(d2, "Failed to download results", 0)
                      ELSE IF ~extracted
                      THEN Notice(Log(Log(d2, "Extracting results..."),
                                      "Import failed"),
                                  "Import failed", 0)
                      ELSE LET d3 == load_products(Log(d2, "Extracting results..."),
                                                   1, options, present, valid)
                               imported_count == Len(d3.imported.layers)
                           IN  IF imported_count > 0
                               THEN Notice(d3, "Imported layers", imported_count)
                               ELSE Notice(d3, "No valid result files found", 0)

\* the status fields the import model is run with
ImportFields == {StatusDict(40), StatusDict(20), StatusInt(40)}

ProductPaths == {product_path(PRODUCTS[k]) : k \in 1..Len(PRODUCTS)}

\* the ticks of the import dialog the model is run with
ImportOptions == {{"orthophoto", "dsm", "dtm", "point_cloud"},
                  {"orthophoto", "dtm", "point_cloud"}, {}}

\* the archives the model is run with, by the product files they hold
Archives ==
    {ProductPaths,
     {product_path("orthophoto"), product_path("dsm"), product_path("dtm")},
     {product_path("dsm")}, {}}

Downloads == {[resp |-> RespNoJson(200), output |-> "written"],
              [resp |-> RespNoJson(200), output |-> "stream breaks"],
              [resp |-> Exc, output |-> "written"]}

\* the "Import to QGIS" button
ImportToQgis ==
    \E resp \in TaskInfoResps(current_project, ImportFields),
       accepted, extracted \in BOOLEAN, options \in ImportOptions,
       download \in Downloads, present \in Archives,
       valid \in {ProductPaths, ProductPaths \ {product_path("dtm")}} :
        Becomes("import_to_qgis",
                [status_code |-> IF resp.kind = "exc" THEN -1
                                 ELSE resp.body.status.code,
                 options |-> options, present |-> present],
                import_to_qgis(Dialog, resp, accepted, options, download,
                               extracted, present, valid))

ImportNext ==
    \/ LoadProjectsWith(PollListAnswers)
    \/ SelectProjectWith(PollFields)
    \/ ImportToQgis
(***************************************************************************)
(* Specifications                                                          *)
(***************************************************************************)
\* the dialog as opened with a token configured while the server cannot be
\* reached
InitOffline == ConnInit /\ token # <<>> /\ TaskInitOffline /\ OptInit /\ GcpInit

\* the dialog as opened with a token configured and the server answering
InitOnline == ConnInit /\ token # <<>> /\ TaskInit /\ OptInit /\ GcpInit

\* the methods of ODMConnection that talk to the server
CallNext ==
    \/ TestConnection
    \/ GetTasks
    \/ CreateTask
    \/ GetTaskInfo
    \/ DownloadResults
    \/ CancelTask
    \/ DeleteTaskRequest

ConnNext == SetCredentials \/ CallNext

\* the HTTP client alone, called with any inputs
SpecConn == InitOffline /\ [][ConnNext]_vars

\* the dialog's task handling and polling
SpecTasks == InitOnline /\ [][TaskNext]_vars

\* the dialog's listing and status line, for every status field
SpecLabels == InitOffline /\ [][LabelNext]_vars

\* the option widgets and the presets
SpecPreset == InitOffline /\ [][PresetNext]_vars

\* the GCP points in memory: files read, points added, edited and removed
SpecGcp == InitOffline /\ [][GcpNext]_vars

\* the GCP file written and read back
SpecGcpFile == InitOffline /\ [][GcpFileNext]_vars


\* GCP files of every kind of line, loaded
SpecGcpParse == InitOffline /\ [][GcpParseNext]_vars

\* the dialog as opened with or without a token configured
InitAnyToken == ConnInit /\ TaskInitOffline /\ OptInit /\ GcpInit

\* the HTTP client under the credentials it was constructed with
SpecCalls == InitAnyToken /\ [][CallNext]_vars

\* the project file written and opened
SpecProject == InitOffline /\ [][ProjectNext]_vars

\* the GCP file written from points that were loaded or added
SpecGcpSave == InitOffline /\ [][GcpSaveNext]_vars

\* the dialog with "Refresh Tasks", a click in the Tasks list and "Import to
\* QGIS"
SpecImport == InitOnline /\ [][ImportNext]_vars
(***************************************************************************)
(* Properties of the HTTP client (under SpecConn)                          *)
(***************************************************************************)
\* the UUIDs of the task entries a /task/list answer carries
ListedUuids(listResp) ==
    IF listResp.kind = "resp" /\ listResp.status = 200 /\ listResp.json
    THEN {listResp.body[i].uuid : i \in 1..Len(listResp.body)} \ {<<>>}
    ELSE {}

DetailFailed(r) == r.kind = "exc" \/ r.status # 200

DetailAnswered(r) == r.kind = "resp" /\ r.status = 200 /\ r.json

\* C1: get_tasks() never raises, and when every detail request either fails
\* (non-200 or transport exception) or is answered, the result holds a
\* record for every listed UUID: the stub where the detail request failed,
\* the detail record otherwise.
C1_GetTasksNeverOmitsATask ==
    call = "get_tasks" =>
        /\ ~raised
        /\ (\A u \in ListedUuids(env.list) :
                DetailFailed(env.info[u]) \/ DetailAnswered(env.info[u]))
           => \A u \in ListedUuids(env.list) : \E i \in 1..Len(ret) :
                  ret[i] = IF DetailFailed(env.info[u]) THEN StubRecord(u)
                           ELSE env.info[u].body

\* C2: create_task never raises: it returns the parsed record when every
\* image opens and the server answers 200 with JSON, and None in every
\* other case.
C2_CreateTaskNeverRaises ==
    call = "create_task" =>
        /\ ~raised
        /\ ret = IF FirstUnopenable(env.paths, env.openable) = 0
                      /\ DetailAnswered(env.post)
                 THEN env.post.body ELSE NoneVal

(***************************************************************************)
(* Properties of polling (under SpecTasks)                                 *)
(***************************************************************************)
TERMINAL == {40, 30, 50}

Logged(line) == \E i \in 1..Len(status_text) : status_text[i] = line

\* C5: after a timer tick whose refresh_status observed a terminal status
\* (COMPLETED 40, FAILED 30 or CANCELED 50) the polling timer is not active.
C5_TerminalStatusStopsPolling ==
    (op.name = "timer_tick" /\ seen \in TERMINAL) => status_timer # "active"

\* C6: after a successful stop_task, after a successful delete_task and
\* after choosing 'No task selected' in the Results selector the polling
\* timer is not active.
C6_PollingStoppedByUser ==
    /\ (op.name = "stop_task" /\ Logged("Task stopped successfully"))
           => status_timer # "active"
    /\ (op.name = "delete_task" /\ Logged("Task deleted successfully"))
           => status_timer # "active"
    /\ (op.name = "select_results_task" /\ ~Truthy(op.arg))
           => status_timer # "active"

\* a timer that had been started is stopped after a successful stop_task
C6_Witness ==
    /\ op.name = "stop_task" /\ Logged("Task stopped successfully")
    /\ status_timer = "stopped"

\* C7: after a task was selected, in the Results selector or by a click in
\* the Tasks list, and the selection saw no terminal status, the polling
\* timer is active and the selected task is the monitored one.
C7_SelectingATaskStartsPolling ==
    (/\ op.name \in {"select_results_task", "select_project"}
     /\ op.arg \in UUIDs
     /\ ~raised
     /\ seen \notin TERMINAL)
        => status_timer = "active" /\ current_project = op.arg

(***************************************************************************)
(* Properties of the status labels (under SpecLabels)                      *)
(***************************************************************************)
\* the labels as the specification tabulates them
ExpectedLabel(c) ==
    IF c = 10 THEN <<"Q", "U", "E", "U", "E", "D">>
    ELSE IF c = 20 THEN <<"R", "U", "N", "N", "I", "N", "G">>
    ELSE IF c = 30 THEN <<"F", "A", "I", "L", "E", "D">>
    ELSE IF c = 40 THEN <<"C", "O", "M", "P", "L", "E", "T", "E", "D">>
    ELSE IF c = 50 THEN <<"C", "A", "N", "C", "E", "L", "E", "D">>
    ELSE <<"U", "N", "K", "N", "O", "W", "N", "(">> \o IntStr(c) \o <<")">>

EndsWith(text, tail) ==
    /\ Len(text) >= Len(tail)
    /\ SubSeq(text, Len(text) - Len(tail) + 1, Len(text)) = tail

\* C10: every item of the Tasks list written by load_projects ends with the
\* label of its task's status code, and the status line written by
\* refresh_status carries the label of the code it saw; codes outside
\* 10..50 render as UNKNOWN(code) at both places.
C10_StatusLabels ==
    /\ op.name = "load_projects" =>
           /\ Len(projects_list) = Len(op.arg)
           /\ \A i \in 1..Len(op.arg) :
                  EndsWith(projects_list[i],
                           <<" ", "-", " ">> \o ExpectedLabel(op.arg[i]))
    /\ (op.name = "refresh_status" /\ seen # -1) =>
           /\ Len(results_text) = 1
           /\ results_text[1].status = ExpectedLabel(seen)

\* a listing showed an UNKNOWN(60) task and a refresh saw CANCELED
C10_Witness ==
    /\ op.name = "refresh_status" /\ seen = 50
    /\ results_text[1].status = <<"C", "A", "N", "C", "E", "L", "E", "D">>
    /\ \E i \in 1..Len(projects_list) :
           EndsWith(projects_list[i],
                    <<"U", "N", "K", "N", "O", "W", "N", "(", "6", "0", ")">>)

(***************************************************************************)
(* Properties of the presets (under SpecPreset)                            *)
(***************************************************************************)
\* C8: after apply_preset with a named preset every option field holds the
\* value the preset table gives for it, the thread count (0) included.
C8_PresetSetsEveryField ==
    (op.name = "apply_preset" /\ op.arg \in PRESET_NAMES) => opts = presets[op.arg]

\* C9: the step in which 'Custom' is chosen in the preset selector, and so
\* apply_preset('Custom') runs, changes no option field and no other state
\* of the dialog, and logs nothing.
C9_CustomChangesNothing ==
    [][(preset_combo # "Custom" /\ preset_combo' = "Custom") =>
           /\ UNCHANGED <<opts, current_project, status_timer, orphan_timers,
                          start_task_btn, stop_task_btn, delete_task_btn,
                          image_paths, projects_list, results_task_combo,
                          results_text, progress_bar, gcpVars, connVars>>
           /\ status_text' = <<>>]_vars

\* 'Custom' was chosen with an option edited by hand, so that the options
\* are those of no preset
C9_Witness ==
    /\ op.name = "apply_preset" /\ op.arg = "Custom"
    /\ edits > 0
    /\ \A p \in PRESET_NAMES : opts # apply_preset(WidgetDefaults, p)

(***************************************************************************)
(* Properties of the GCP points (under SpecGcp and SpecGcpFile)            *)
(***************************************************************************)
\* C3: the i-th point of gcp_points has id i.
C3_IdsAreDense == \A i \in 1..Len(gcp_points) : gcp_points[i].id = i

\* a point was removed and a point is left
C3_Witness ==
    /\ op.name = "remove_gcp_point"
    /\ \E i \in 1..Len(gcp_msgs) : gcp_msgs[i].text = "GCP point deleted"
    /\ Len(gcp_points) = 1
    /\ gcp_points[1].id = 1

\* what the round trip is to keep of a point: the coordinates, the file
\* name and the label (none when the key is missing or empty)
PointData(gcp) ==
    [world_x |-> gcp.world_x, world_y |-> gcp.world_y, world_z |-> gcp.world_z,
     image_x |-> gcp.image_x, image_y |-> gcp.image_y, filename |-> gcp.filename,
     label |-> IF Truthy(gcp.gcp_name) THEN gcp.gcp_name ELSE <<>>]

\* C4: after the file written by save_gcp_file was loaded, gcp_points holds
\* the points that were written, in order, with the same coordinates, file
\* name and label.
C4_SavedFileReadsBack ==
    (op.name = "load_gcp_file" /\ op.arg = "saved") =>
        /\ Len(gcp_points) = Len(written_points)
        /\ \A i \in 1..Len(written_points) :
               PointData(gcp_points[i]) = PointData(written_points[i])


(***************************************************************************)
(* Properties of the GCP file parser (under SpecGcpParse)                  *)
(***************************************************************************)
\* load_gcp_file has read a file with lines; op.arg holds them
FileLoaded == op.name = "load_gcp_file" /\ op.arg # <<>>

\* a first line that names a projection: it starts with '+proj=' or
\* 'EPSG:', or contains 'UTM' in any case
LooksLikeProjection(text) ==
    \/ StartsWith(Strip(text), PROJ_PREFIX)
    \/ StartsWith(Strip(text), EPSG_PREFIX)
    \/ Contains(Upper(Strip(text)), UTM)

Skipped(text) == Strip(text) = <<>> \/ StartsWith(Strip(text), <<"#">>)

\* the numbers of the data lines of the file loaded: not the projection
\* line, not blank, not a comment
DataLineNumbers ==
    {k \in 1..Len(op.arg) :
        /\ k > 1 \/ ~LooksLikeProjection(op.arg[1])
        /\ ~Skipped(op.arg[k])}

PointsOfLine(k) ==
    LET ofLine(p) == p.line_num = k IN SelectSeq(gcp_points, ofLine)

MsgsOfLine(k) ==
    LET ofLine(m) == m.line = k IN SelectSeq(gcp_msgs, ofLine)

Numeric(field) == ParseFloat(field).ok

\* the first count fields from field number from (counted from 1) are numbers
NumericFields(parts, from, count) ==
    \A i \in from..(from + count - 1) : Numeric(parts[i])

FieldCountError(k) == Msg("Parse Error", k, "Expected 6+ fields")
IncompleteError(k) == Msg("Incomplete GCP Data", k, "missing")
NotNumericError(k) == Msg("Parse Error", k, "fields 2-4")

\* C11: a data line of fewer than 4 fields gets the message box of the field
\* count and adds no point; a data line of exactly 4 numeric fields gets the
\* message box 'Incomplete GCP Data' and no other, and adds no point.
C11_ShortLinesRejected ==
    FileLoaded =>
        \A k \in DataLineNumbers :
            LET parts == Fields(op.arg[k])
            IN  /\ Len(parts) < 4 =>
                       /\ MsgsOfLine(k) = <<FieldCountError(k)>>
                       /\ PointsOfLine(k) = <<>>
                /\ (Len(parts) = 4 /\ NumericFields(parts, 1, 4)) =>
                       /\ MsgsOfLine(k) = <<IncompleteError(k)>>
                       /\ PointsOfLine(k) = <<>>

\* a file with a line of three fields and a line of four numbers was loaded
C11_Witness ==
    /\ FileLoaded
    /\ \E k \in DataLineNumbers : Len(Fields(op.arg[k])) = 3
    /\ \E k \in DataLineNumbers :
           /\ Len(Fields(op.arg[k])) = 4
           /\ NumericFields(Fields(op.arg[k]), 1, 4)
           /\ IncompleteError(k) \in {gcp_msgs[i] : i \in 1..Len(gcp_msgs)}

\* the data lines that are neither a record of 6 or more fields nor a line
\* of exactly 4 fields with numbers in the fields 1 to 3 (counted from 0)
OtherLineNumbers ==
    {k \in DataLineNumbers :
        LET parts == Fields(op.arg[k])
        IN  /\ Len(parts) < 6
            /\ ~(Len(parts) = 4 /\ NumericFields(parts, 2, 3))}

\* C12 as stated: every such line gets the message box of the field count
\* and adds no point.
C12_OtherLinesGetFieldCountError ==
    FileLoaded =>
        \A k \in OtherLineNumbers :
            /\ MsgsOfLine(k) = <<FieldCountError(k)>>
            /\ PointsOfLine(k) = <<>>

\* C12, amended: every such line gets one message box 'Parse Error' and adds
\* no point; the box names the field count unless the line has exactly 4
\* fields, and then it names the numeric coordinates of fields 2-4.
C12_OtherLinesGetParseError ==
    FileLoaded =>
        \A k \in OtherLineNumbers :
            /\ MsgsOfLine(k) =
                   <<IF Len(Fields(op.arg[k])) = 4
                     THEN NotNumericError(k) ELSE FieldCountError(k)>>
            /\ PointsOfLine(k) = <<>>

\* a file with a line of five fields and a line of four fields that are not
\* numbers was loaded
C12_Witness ==
    /\ FileLoaded
    /\ \E k \in OtherLineNumbers : Len(Fields(op.arg[k])) = 5
    /\ \E k \in OtherLineNumbers :
           Len(Fields(op.arg[k])) = 4 /\ MsgsOfLine(k) # <<>>

\* the lines of the file that are records: 6 or more fields, the first five
\* of them numbers
ValidRecordNumbers ==
    {k \in 1..Len(op.arg) :
        /\ ~Skipped(op.arg[k])
        /\ Len(Fields(op.arg[k])) >= 6
        /\ NumericFields(Fields(op.arg[k]), 1, 5)}

\* C13: the points loaded are the valid records of the file, in the order of
\* the file, and every other data line has one message box of its own.
C13_PointsAreTheValidRecords ==
    FileLoaded =>
        /\ Len(gcp_points) = Cardinality(ValidRecordNumbers)
        /\ \A i \in 1..Len(gcp_points) :
               /\ gcp_points[i].line_num \in ValidRecordNumbers
               /\ \A j \in 1..(i - 1) :
                      gcp_points[j].line_num < gcp_points[i].line_num
        /\ \A k \in DataLineNumbers \ ValidRecordNumbers :
               Len(MsgsOfLine(k)) = 1

\* no message box and no point of the loaded file names line k
Unparsed(k) == MsgsOfLine(k) = <<>> /\ PointsOfLine(k) = <<>>

\* C14: when line 1 names a projection, gcp_projection is line 1 (without
\* the white space around it) and line 1 is not parsed as data; otherwise
\* gcp_projection is 'EPSG:4326' and line 1 is parsed as data.  Every later
\* line that is not blank and no comment is parsed in both cases.
C14_ProjectionLine ==
    FileLoaded =>
        /\ IF LooksLikeProjection(op.arg[1])
           THEN gcp_projection = Strip(op.arg[1]) /\ Unparsed(1)
           ELSE /\ gcp_projection = EPSG_4326
                /\ Skipped(op.arg[1]) \/ ~Unparsed(1)
        /\ \A k \in 2..Len(op.arg) : Skipped(op.arg[k]) \/ ~Unparsed(k)

\* a file was loaded whose first line has 'utm' in lower case and no prefix
\* of a projection, and whose second line is a record
C14_Witness ==
    /\ FileLoaded
    /\ Contains(op.arg[1], <<"u", "t", "m">>)
    /\ ~StartsWith(op.arg[1], PROJ_PREFIX)
    /\ gcp_projection = op.arg[1]
    /\ Len(gcp_points) = 1
    /\ gcp_points[1].line_num = 2

\* C15: a data line of 6 or more fields whose first five are numbers adds
\* exactly one point: world_x, world_y, world_z are the fields 0 to 2,
\* image_x and image_y the fields 3 and 4, filename is field 5, gcp_name is
\* field 6 when there is one and empty otherwise.
C15_RecordMakesOnePoint ==
    FileLoaded =>
        \A k \in DataLineNumbers :
            LET parts == Fields(op.arg[k])
                p == PointsOfLine(k)
            IN  (Len(parts) >= 6 /\ NumericFields(parts, 1, 5)) =>
                    /\ Len(p) = 1
                    /\ p[1].world_x = ParseFloat(parts[1]).value
                    /\ p[1].world_y = ParseFloat(parts[2]).value
                    /\ p[1].world_z = ParseFloat(parts[3]).value
                    /\ p[1].image_x = ParseFloat(parts[4]).value
                    /\ p[1].image_y = ParseFloat(parts[5]).value
                    /\ p[1].filename = parts[6]
                    /\ p[1].gcp_name = (IF Len(parts) >= 7 THEN parts[7] ELSE <<>>)
                    /\ MsgsOfLine(k) = <<>>

\* a file was loaded with a record of eight fields and a record of six
C15_Witness ==
    /\ FileLoaded
    /\ \E k \in DataLineNumbers :
           /\ Len(Fields(op.arg[k])) = 8
           /\ Len(PointsOfLine(k)) = 1
           /\ PointsOfLine(k)[1].gcp_name = <<"G", "2">>
    /\ \E k \in DataLineNumbers :
           /\ Len(Fields(op.arg[k])) = 6
           /\ Len(PointsOfLine(k)) = 1
           /\ PointsOfLine(k)[1].gcp_name = <<>>

(***************************************************************************)
(* Properties of the probes and of the calls of one request (SpecConn)     *)
(***************************************************************************)
Answered200(r) == r.kind = "resp" /\ r.status = 200

\* the number of the first probe answered with 200, 0 when there is none
FirstAnswered(probes) ==
    LET hits == {i \in 1..3 : Answered200(probes[i])}
    IN  IF hits = {} THEN 0 ELSE Min(hits)

\* C16: test_connection issues GET /info, GET / and GET /task/list in this
\* order up to and including the first probe that answers 200 and returns
\* True there; a probe that throws or answers another status is followed by
\* the next one; without a 200 all three are issued and the result is
\* False; no exception leaves the call.
C16_ProbesInOrder ==
    call = "test_connection" =>
        LET k == FirstAnswered(env.probes)
            n == IF k = 0 THEN 3 ELSE k
        IN  /\ ~raised
            /\ ret = (k # 0)
            /\ Len(reqs) = n
            /\ \A i \in 1..n :
                   reqs[i].method = "GET" /\ reqs[i].path = ENDPOINTS[i]

\* the first probe threw, the second answered 404 and the third 200
C16_Witness ==
    /\ call = "test_connection"
    /\ env.probes[1].kind = "exc"
    /\ env.probes[2] = RespNoJson(404)
    /\ Answered200(env.probes[3])
    /\ ret = TRUE
    /\ Len(reqs) = 3

SingleRequestCalls ==
    {"get_task_info", "download_results", "cancel_task", "delete_task"}

\* the call failed: no answer, a status other than 200, or a 200 whose
\* body cannot be used: no JSON for get_task_info, cancel_task and
\* delete_task, no 'success' to read for the latter two, a body that cannot
\* be stored for download_results
CallFailed ==
    \/ ~Answered200(env.resp)
    \/ call # "download_results" /\ ~env.resp.json
    \/ /\ call \in {"cancel_task", "delete_task"}
       /\ env.resp.json
       /\ "success" \notin DOMAIN env.resp.body
    \/ call = "download_results" /\ env.output # "written"

\* C17: a call of get_task_info, download_results, cancel_task or
\* delete_task issues exactly one request, lets no exception out, and
\* returns None (get_task_info) or False (the others) when it failed.
C17_OneRequestNoRaise ==
    call \in SingleRequestCalls =>
        /\ Len(reqs) = 1
        /\ ~raised
        /\ CallFailed =>
               ret = IF call = "get_task_info" THEN NoneVal ELSE FALSE

\* download_results got a 200 and could not open the output file
C17_Witness ==
    /\ call = "download_results"
    /\ Answered200(env.resp)
    /\ env.output = "open fails"
    /\ ret = FALSE
    /\ Len(reqs) = 1

\* C18 (under SpecCalls): every request issued in a call of the client
\* carries the token as the query parameter 'token' when the token
\* configured is not empty, and no parameter 'token' when it is empty.
C18_EveryRequestCarriesTheToken ==
    \A i \in 1..Len(reqs) :
        reqs[i].params = IF token # <<>> THEN {<<"token", token>>} ELSE {}

\* C20 as stated: the record get_tasks returns for a task whose detail
\* request was answered with a status other than 200 has the plain code 0
\* as its status.
C20_StubHasPlainStatus ==
    call = "get_tasks" =>
        \A i \in 1..Len(ret) :
            ~Answered200(env.info[ret[i].uuid]) =>
                ret[i] = [uuid |-> ret[i].uuid, name |-> <<"T", "a", "s", "k">>,
                          status |-> StatusInt(0), progress |-> 0]

\* C20, amended: that record is {uuid, name: 'Task', status: {'code': 0},
\* progress: 0}: its status field is a dict that holds the code 0.
C20_StubHasStatusDict ==
    call = "get_tasks" =>
        \A i \in 1..Len(ret) :
            ~Answered200(env.info[ret[i].uuid]) =>
                ret[i] = [uuid |-> ret[i].uuid, name |-> <<"T", "a", "s", "k">>,
                          status |-> [kind |-> "dict", code |-> 0],
                          progress |-> 0]

\* get_tasks returned a stub and a detail record
C20_Witness ==
    /\ call = "get_tasks"
    /\ Len(ret) = 2
    /\ ~Answered200(env.info[ret[1].uuid])
    /\ Answered200(env.info[ret[2].uuid])
    /\ ret[1].status.code = 0

(***************************************************************************)
(* Properties of the project file (under SpecProject)                      *)
(***************************************************************************)
\* C19: after open_project has loaded the file save_project wrote, the
\* dialog holds the saved image paths, the saved preset name, the saved
\* value of every option and the saved token.
C19_ProjectRoundTrip ==
    (op.name = "open_project" /\ op.arg = "loaded") =>
        /\ image_paths = project_file.images
        /\ preset_combo = project_file.preset
        /\ opts = project_file.options
        /\ token = project_file.token

(***************************************************************************)
(* Properties of the GCP file written (under SpecGcpSave)                  *)
(***************************************************************************)
\* save_gcp_file has just written the points in memory
FileWritten ==
    op.name = "save_gcp_file" /\ op.arg = "written" /\ gcp_points # <<>>

TAB == <<"\t">>

\* field k (counted from 0) of a line of tab-separated fields
TabField(line, k) == SplitPart(line, TAB, k)

\* the label of a point: empty when the key is missing or empty
LabelOf(gcp) == IF Truthy(gcp.gcp_name) THEN gcp.gcp_name ELSE <<>>

\* C21: the file written starts with the projection recorded (EPSG:4326
\* when none is), goes on with the four comment lines, and ends with one
\* line per point of gcp_points, in order: tab-separated, the five numbers
\* and the file name, and a seventh field, the label, exactly when the
\* label is not empty.
C21_SavedFileLayout ==
    FileWritten =>
        /\ Len(gcp_file) = 1 + Len(COMMENT_LINES) + Len(gcp_points)
        /\ gcp_file[1] = IF Truthy(gcp_projection) THEN gcp_projection
                         ELSE <<"E", "P", "S", "G", ":", "4", "3", "2", "6">>
        /\ \A i \in 1..Len(COMMENT_LINES) :
               gcp_file[1 + i] = COMMENT_LINES[i] /\ gcp_file[1 + i][1] = "#"
        /\ \A i \in 1..Len(gcp_points) :
               LET line == gcp_file[1 + Len(COMMENT_LINES) + i]
                   gcp == gcp_points[i]
               IN  /\ SplitCount(line, TAB) =
                          IF LabelOf(gcp) = <<>> THEN 6 ELSE 7
                   /\ ParseFloat(TabField(line, 0)).value = gcp.world_x
                   /\ ParseFloat(TabField(line, 1)).value = gcp.world_y
                   /\ ParseFloat(TabField(line, 2)).value = gcp.world_z
                   /\ ParseFloat(TabField(line, 3)).value = gcp.image_x
                   /\ ParseFloat(TabField(line, 4)).value = gcp.image_y
                   /\ \A k \in 0..4 : ParseFloat(TabField(line, k)).ok
                   /\ TabField(line, 5) = gcp.filename
                   /\ LabelOf(gcp) # <<>> => TabField(line, 6) = LabelOf(gcp)

\* a point with a label and a point without were written under a
\* projection that was read from a file
C21_Witness ==
    /\ FileWritten
    /\ Len(gcp_points) = 2
    /\ LabelOf(gcp_points[1]) # <<>>
    /\ LabelOf(gcp_points[2]) = <<>>
    /\ Truthy(gcp_projection)
    /\ gcp_projection # <<"E", "P", "S", "G", ":", "4", "3", "2", "6">>

(***************************************************************************)
(* Import to QGIS                                                          *)
(***************************************************************************)
\* the last handler was import_to_qgis
Importing == op.name = "import_to_qgis"

\* import_to_qgis asked for the archive of the results
Downloaded ==
    \E k \in 1..Len(reqs) : reqs[k].path = "/task/{uuid}/download/all.zip"

\* C22: import_to_qgis downloads nothing and adds no layer unless a task is
\* selected and the status it has just fetched is COMPLETED (40); when it
\* goes on, a product is loaded only if it was ticked and its file exists at
\* its fixed path, and the count it reports is the number of layers added
C22_ImportOnlyCompletedAndSelected ==
    Importing =>
        /\ (Downloaded \/ imported.layers # <<>>) =>
               /\ Truthy(current_project)
               /\ op.arg.status_code = 40
               /\ reqs[1].path = "/task/{uuid}/info"
               /\ reqs[1].uuid = current_project
        /\ \A k \in 1..Len(imported.layers) :
               /\ imported.layers[k] \in op.arg.options
               /\ product_path(imported.layers[k]) \in op.arg.present
        /\ imported.count = Len(imported.layers)
        /\ imported.layers # <<>> => imported.title = "Imported layers"

\* two layers are added while a ticked product has no file and a product
\* that was not ticked has one
C22_Witness ==
    /\ Importing
    /\ Downloaded
    /\ imported.count = 2
    /\ \E p \in op.arg.options : product_path(p) \notin op.arg.present
    /\ \E q \in {"dsm", "point_cloud"} :
           q \notin op.arg.options /\ product_path(q) \in op.arg.present

(***************************************************************************)
(* Polling                                                                 *)
(***************************************************************************)
\* the step is a timeout of a status timer
Ticks == op'.name = "timer_tick"

\* C23: a polling tick issues exactly one status request, for the selected
\* task, when a task is selected, and none when no task is selected; a tick
\* whose request fails leaves the selected task and the timers as they were
C23_TickIssuesOneRequest ==
    [][Ticks =>
         /\ ~Truthy(current_project) => reqs' = <<>>
         /\ Truthy(current_project) =>
                /\ reqs' = <<Req("GET", "/task/{uuid}/info", current_project, token)>>
                /\ seen' = -1 =>
                       /\ current_project' = current_project
                       /\ status_timer' = status_timer
                       /\ orphan_timers' = orphan_timers]_vars

\* a tick for a selected task has failed, and the timer is still running
C23_Witness ==
    /\ op.name = "timer_tick"
    /\ Truthy(current_project)
    /\ Len(reqs) = 1
    /\ seen = -1
    /\ status_timer = "active"

\* a tick has come with no task selected
C23_WitnessNoTask ==
    /\ op.name = "timer_tick"
    /\ ~Truthy(current_project)
    /\ reqs = <<>>

(***************************************************************************)
(* The selection after a task was created                                  *)
(***************************************************************************)
\* the last handler was start_task_processing and create_task gave a task
TaskCreated == op.name = "start_task_processing" /\ op.arg \in UUIDs

\* C24: after start_task_processing has created a task, current_project is
\* the UUID of the new task and the polling it started is for that task:
\* the timer is active and the first poll asked for the new task's status
C24_CreatedTaskIsSelected ==
    TaskCreated =>
        /\ current_project = op.arg
        /\ status_timer = "active"
        /\ reqs[Len(reqs)] = Req("GET", "/task/{uuid}/info", op.arg, token)

(***************************************************************************)
(* The task buttons                                                        *)
(***************************************************************************)
\* C25: in every reachable state, if the Stop Task button or the Delete Task
\* button is enabled then a task is selected (current_project is set); so it
\* is after "Refresh Tasks" with a task selected and after a task was created
C25_EnabledButtonsHaveATask ==
    (stop_task_btn \/ delete_task_btn) => Truthy(current_project)

(***************************************************************************)
(* The GCP list shown                                                      *)
(***************************************************************************)
\* C26: after every GCP operation (load, add, edit, remove) the GCP list
\* shown has exactly one entry per point in memory, in the same order and
\* with the same ids, also after a load that ends early or finds nothing
C26_ListShowsThePoints ==
    /\ Len(gcp_list) = Len(gcp_points)
    /\ \A i \in 1..Len(gcp_list) : item_gcp_id(gcp_list[i]) = gcp_points[i].id

(***************************************************************************)
(* One polling timer                                                       *)
(***************************************************************************)
\* C27: at most one polling timer is active at any time: whenever
\* start_status_monitoring starts a timer the one that was running has been
\* stopped, so no timer runs besides self.status_timer, and no handler that
\* a timer runs issues more than one status request
C27_OneActiveTimer ==
    /\ orphan_timers = 0
    /\ op.name = "timer_tick" => Len(reqs) <= 1

\* monitoring was started anew while a timer was running
C27_Witness ==
    /\ op.name \in {"start_task_processing", "select_results_task"}
    /\ restarted
    /\ status_timer = "active"
    /\ orphan_timers = 0

(***************************************************************************)
(* A click in the Tasks list                                               *)
(***************************************************************************)
\* C28: for every task load_projects shows in the Tasks list, a click on its
\* entry makes current_project that task's UUID, whatever the task's name
C28_ClickSelectsTheShownTask ==
    op.name = "select_project" => current_project = op.arg

(***************************************************************************)
(* No record lost on load                                                  *)
(***************************************************************************)
\* C29: no well-formed record is lost on load: every line of the file with 6
\* or more fields, the first five of them numbers, becomes a point, also
\* when it is the first line and its file name or label contains 'UTM' in
\* any case
C29_NoRecordLost ==
    FileLoaded => \A k \in ValidRecordNumbers : Len(PointsOfLine(k)) = 1

(***************************************************************************)
(* The file handles of create_task                                         *)
(***************************************************************************)
\* C30: create_task has closed every image file it opened when it returns or
\* fails, on every path: a 200 answer, another answer, a transport exception
\* and a later image that cannot be opened after earlier ones were
C30_CreateTaskClosesItsFiles ==
    call = "create_task" => handles = 0
====
